---- MODULE Spec2Model ----
(***************************************************************************)
(* Country Clustering Analysis of the hierarchical dashboards              *)
(* (Checkpoint2/app.py, generate_hierarchical.py, tcf_strategic_           *)
(* dashboard.py): StandardScaler.fit_transform -> pdist(euclidean) ->      *)
(* linkage(method='ward') -> dendrogram(color_threshold=2.0).              *)
(*                                                                         *)
(* The other programs of the repository (the dendrogram of the TCF          *)
(* dashboard, the cached CSV loaders, the World Bank fetcher, the data     *)
(* loading of the executive dashboard, the hierarchy checks of the         *)
(* cleaning and preparation scripts, the two data pipelines, the           *)
(* visualization generator runs, budget preparation, the network           *)
(* dashboard, clean_org_data and the dashboard launchers) have their own   *)
(* variables and their own specification each; a specification holds the   *)
(* variables of the other programs still.                                  *)
(*                                                                         *)
(* Arithmetic is exact.  A standardized value is kept as num / sqrt(den2), *)
(* and every distance is kept as the reduced fraction [p, q] of its        *)
(* square, so that the square roots taken by pdist and by Ward's update    *)
(* never have to be approximated: d1 < d2 iff d1^2 < d2^2.                 *)
(***************************************************************************)
EXTENDS Integers, Sequences, FiniteSets, TLC

\* ------------------------------------------------------------- bounds
\* Largest number of rows (countries) of a generated table.
MaxN == 3
\* Largest value of a feature (Population, Gdp_per_capita) in a generated table.
MaxVal == 1
\* Largest finite colour threshold tried.
MaxT == 3

\* Number of feature columns: ['Population', 'Gdp_per_capita'].
NumFeatures == 2
\* set_link_color_palette([...]) : five link colours.
PaletteLen == 5

VARIABLES
    pc,                   \* position in the "Country Clustering Analysis" block
    features,             \* country_data[['Population','Gdp_per_capita']].values
    color_threshold,      \* the color_threshold argument of dendrogram
    features_normalized,  \* scaler.fit_transform(features)
    distances,            \* pdist(features_normalized, metric='euclidean')
    linkage_matrix,       \* linkage(distances, method='ward')
    dendro,               \* dendrogram(linkage_matrix, ...)
    error                 \* the exception that ended the block, "" when none

vars == <<pc, features, color_threshold, features_normalized, distances,
          linkage_matrix, dendro, error>>

\* create_dendrogram(data, title) of tcf_dashboard/src/tcf_strategic_dashboard.py
VARIABLES
    tcf_pc,               \* position in create_dendrogram
    data,                 \* data[['population', 'gdp_per_capita']]
    numeric_data,         \* numeric_data, after fillna
    scaled_data,          \* scaler.fit_transform(numeric_data)
    tcf_linkage_matrix,   \* linkage(scaled_data, method='ward')
    fig,                  \* what dendrogram drew on the returned figure
    tcf_error             \* the exception that ended the call, "" when none

tcfVars == <<tcf_pc, data, numeric_data, scaled_data, tcf_linkage_matrix, fig,
             tcf_error>>

\* A program that is not the one a specification runs stays as it is here.
TcfIdle ==
    /\ tcf_pc = "idle"
    /\ data = << >>
    /\ numeric_data = << >>
    /\ scaled_data = << >>
    /\ tcf_linkage_matrix = << >>
    /\ fig = << >>
    /\ tcf_error = ""

ClusteringIdle ==
    /\ pc = "idle"
    /\ features = << >>
    /\ color_threshold = << >>
    /\ features_normalized = << >>
    /\ distances = << >>
    /\ linkage_matrix = << >>
    /\ dendro = << >>
    /\ error = ""

\* load_csv(path) of Checkpoint3/app.py under @st.cache_data, over the runs
\* of the dashboard script in one server process
VARIABLES
    csv_files,            \* what each CSV file holds on disk now
    cache_data,           \* st.cache_data's entry for load_csv(path)
    frames,               \* what load_csv(path) returned to the latest run
    last_event            \* "start", "run", "write" or "restart"

cacheVars == <<csv_files, cache_data, frames, last_event>>

CacheIdle ==
    /\ csv_files = << >>
    /\ cache_data = << >>
    /\ frames = << >>
    /\ last_event = "idle"

\* fetch_indicator_latest(indicator, years) of fetch_country_gdp_population.py
VARIABLES
    fetch_pc,             \* "request" while pages are fetched, then "returned"
    years,                \* the years argument, most preferred year first
    api_pages,            \* the pages of rows the World Bank API answers with
    page,                 \* the page requested next
    results               \* results: country -> (year, value or None)

fetchVars == <<fetch_pc, years, api_pages, page, results>>

FetchIdle ==
    /\ fetch_pc = "idle"
    /\ years = << >>
    /\ api_pages = << >>
    /\ page = 0
    /\ results = << >>

\* test_data_loading() and the start of dashboards/executive-dashboard/app.py
VARIABLES
    integrated_csv,       \* ../analyst/integrated_data.csv on disk
    country_csv,          \* ../analyst/country_aggregated.csv on disk
    pandas_installed,     \* whether "import pandas" works for the test script
    test_result,          \* what test_data_loading() returned, "not run" before
    dash_pc,              \* position in the dashboard script
    df_integrated,        \* the dashboard's df_integrated
    df_country,           \* the dashboard's df_country
    shown                 \* what the dashboard has put on the page

loadVars == <<integrated_csv, country_csv, pandas_installed, test_result,
              dash_pc, df_integrated, df_country, shown>>

LoadIdle ==
    /\ integrated_csv = "idle"
    /\ country_csv = "idle"
    /\ pandas_installed = FALSE
    /\ test_result = "idle"
    /\ dash_pc = "idle"
    /\ df_integrated = "idle"
    /\ df_country = "idle"
    /\ shown = {}

\* The hierarchy functions over the labels/parents table of org_structure.csv:
\* _validate_hierarchy, _is_circular_reference and _count_hierarchy_levels of
\* clean_hierarchical_data.py, calculate_level of prepare_hierarchical_data.py
VARIABLES
    org_data,             \* the rows (labels, parents) of the table
    org_pc,               \* which function runs, and how it ended
    warnings,             \* what _validate_hierarchy has logged
    cl_label,             \* calculate_level: the label argument of the frame
    level,                \* calculate_level: the level argument of the frame
    levels,               \* _count_hierarchy_levels: levels
    current_level         \* _count_hierarchy_levels: current_level

orgVars == <<org_data, org_pc, warnings, cl_label, level, levels,
             current_level>>

OrgIdle ==
    /\ org_data = << >>
    /\ org_pc = "idle"
    /\ warnings = << >>
    /\ cl_label = ""
    /\ level = 0
    /\ levels = 0
    /\ current_level = {}

\* run_cleaning_pipeline and run_preparation_pipeline
\* (src/Checkpoint2/clean_hierarchical_data.py, prepare_hierarchical_data.py)
VARIABLES
    pipeline,             \* which pipeline runs: "cleaning" or "preparation"
    country_file,         \* state of the country file the load step finds
    org_file,             \* state of the organizational file the load step finds
    next_step,            \* index in Steps(pipeline) of the step to run next
    step_log,             \* the steps run so far, each with its outcome
    pipeline_return       \* "" while running, then "True", "False" or "raised"

pipeVars == <<pipeline, country_file, org_file, next_step, step_log,
              pipeline_return>>

PipeIdle ==
    /\ pipeline = ""
    /\ country_file = ""
    /\ org_file = ""
    /\ next_step = 0
    /\ step_log = <<>>
    /\ pipeline_return = ""

\* Visualization generator runs (src/Checkpoint2/generate_hierarchical.py,
\* generate_hierarchical_viz.py, src/scripts/visualization-generators/
\* generate_temporal_viz.py)
VARIABLES
    gen_run,              \* "hierarchical", "advanced" or "temporal"
    input_files,          \* the input files that exist in the data directory
    gen_pc,               \* "load", "generate", "index" or "done"
    loaded,               \* the datasets the load step has set (not None)
    gen_log,              \* generators attempted so far, each with its outcome
    success_count,        \* success_count of the generator loop
    written,              \* output files written by this run
    index_written,        \* the run has written its index file
    index_listed,         \* the files the written index lists
    gen_return            \* "" while running, then "True" or "False"

genVars == <<gen_run, input_files, gen_pc, loaded, gen_log, success_count,
             written, index_written, index_listed, gen_return>>

GenIdle ==
    /\ gen_run = ""
    /\ input_files = {}
    /\ gen_pc = ""
    /\ loaded = {}
    /\ gen_log = <<>>
    /\ success_count = 0
    /\ written = {}
    /\ index_written = FALSE
    /\ index_listed = {}
    /\ gen_return = ""

\* Budget preparation (src/Checkpoint2/prepare_hierarchical_data.py
\* prepare_org_data, src/Checkpoint2/app.py load_data)
VARIABLES
    budget_org,           \* org_data: rows [labels, parents, values]
    budget_data,          \* budget_data: the rows with their 'budget' column
    dept_index            \* multipliers applied so far; -1 before the base budget

budgetVars == <<budget_org, budget_data, dept_index>>

BudgetIdle ==
    /\ budget_org = <<>>
    /\ budget_data = <<>>
    /\ dept_index = 0 - 1

\* Network dashboard script (src/Checkpoint3/app.py): loaded tables,
\* hierarchy table and the density of the advanced overview
VARIABLES
    clean_df,             \* load_csv(CLEAN_NO_OUT): [loaded, rows], rows of size_cleaned
    edges_df,             \* load_csv(EDGES_CSV): [loaded, rows], rows <<source, target>>
    nodes_df,             \* load_csv(NODES_CSV): [loaded, rows], rows of node ids
    hier_file,            \* hierarchy_treemap.csv exists
    hier_source,          \* "none", "file" or "generated"
    hier_df,              \* rows [size_group, community_id, members_count] generated
    simple_mode,          \* the sidebar toggle
    density,              \* the value shown as 'Approx. density', a fraction
    net_pc                \* "loaded", "hierarchy", "shown"

netVars == <<clean_df, edges_df, nodes_df, hier_file, hier_source, hier_df,
             simple_mode, density, net_pc>>

NetIdle ==
    /\ clean_df = [loaded |-> FALSE, rows |-> <<>>]
    /\ edges_df = [loaded |-> FALSE, rows |-> <<>>]
    /\ nodes_df = [loaded |-> FALSE, rows |-> <<>>]
    /\ hier_file = FALSE
    /\ hier_source = ""
    /\ hier_df = {}
    /\ simple_mode = FALSE
    /\ density = [p |-> 0, q |-> 1]
    /\ net_pc = ""

\* clean_org_data (src/Checkpoint2/clean_hierarchical_data.py)
VARIABLES
    raw_org_data,         \* self.org_data: rows [labels, parents, values]
    cleaned_org_data,     \* self.cleaned_org_data
    negative_values,      \* negative_values of the last clipping step
    clean_warnings,       \* what _validate_hierarchy logged
    clean_pc              \* "start", "dropped", "stripped", "clipped", "done"

cleanVars == <<raw_org_data, cleaned_org_data, negative_values,
               clean_warnings, clean_pc>>

CleanIdle ==
    /\ raw_org_data = <<>>
    /\ cleaned_org_data = <<>>
    /\ negative_values = 0
    /\ clean_warnings = <<>>
    /\ clean_pc = ""

\* Dashboard launchers (src/Checkpoint2/tcf_dashboard/scripts/
\* run_dashboard_clean.py, run_dashboard.py)
VARIABLES
    launcher,             \* "run_dashboard_clean" or "run_dashboard"
    python_ok,            \* sys.version_info >= (3, 8)
    present_files,        \* the required files that exist
    pip_result,           \* what pip install does: "ok", "CalledProcessError", "OSError"
    checks_log,           \* the checks run so far, each with its result
    launcher_exit,        \* "" while running, then "exit 1", "return", "raised" or "finished"
    streamlit_started     \* run_dashboard has started Streamlit

launchVars == <<launcher, python_ok, present_files, pip_result, checks_log,
                launcher_exit, streamlit_started>>

LaunchIdle ==
    /\ launcher = ""
    /\ python_ok = FALSE
    /\ present_files = {}
    /\ pip_result = ""
    /\ checks_log = <<>>
    /\ launcher_exit = ""
    /\ streamlit_started = FALSE

allVars == <<vars, tcfVars, cacheVars, fetchVars, loadVars, orgVars, pipeVars,
             genVars, budgetVars, netVars, cleanVars, launchVars>>
notClustering == <<tcfVars, cacheVars, fetchVars, loadVars, orgVars, pipeVars,
                   genVars, budgetVars, netVars, cleanVars, launchVars>>
notTcf == <<vars, cacheVars, fetchVars, loadVars, orgVars, pipeVars, genVars,
            budgetVars, netVars, cleanVars, launchVars>>
notCache == <<vars, tcfVars, fetchVars, loadVars, orgVars, pipeVars, genVars,
              budgetVars, netVars, cleanVars, launchVars>>
notFetch == <<vars, tcfVars, cacheVars, loadVars, orgVars, pipeVars, genVars,
              budgetVars, netVars, cleanVars, launchVars>>
notLoad == <<vars, tcfVars, cacheVars, fetchVars, orgVars, pipeVars, genVars,
             budgetVars, netVars, cleanVars, launchVars>>
notOrg == <<vars, tcfVars, cacheVars, fetchVars, loadVars, pipeVars, genVars,
            budgetVars, netVars, cleanVars, launchVars>>
notPipe == <<vars, tcfVars, cacheVars, fetchVars, loadVars, orgVars, genVars,
             budgetVars, netVars, cleanVars, launchVars>>
notGen == <<vars, tcfVars, cacheVars, fetchVars, loadVars, orgVars, pipeVars,
            budgetVars, netVars, cleanVars, launchVars>>
notBudget == <<vars, tcfVars, cacheVars, fetchVars, loadVars, orgVars,
               pipeVars, genVars, netVars, cleanVars, launchVars>>
notNet == <<vars, tcfVars, cacheVars, fetchVars, loadVars, orgVars, pipeVars,
            genVars, budgetVars, cleanVars, launchVars>>
notClean == <<vars, tcfVars, cacheVars, fetchVars, loadVars, orgVars,
              pipeVars, genVars, budgetVars, netVars, launchVars>>
notLaunch == <<vars, tcfVars, cacheVars, fetchVars, loadVars, orgVars,
               pipeVars, genVars, budgetVars, netVars, cleanVars>>

\* ------------------------------------------------------------ fractions
RECURSIVE Gcd(_, _)
Gcd(a, b) == IF b = 0 THEN a ELSE Gcd(b, a % b)

\* The reduced fraction p/q (p >= 0, q > 0).
Frac(p, q) ==
    LET g == Gcd(p, q)
    IN  [p |-> p \div g, q |-> q \div g]

FLess(a, b) == a.p * b.q < b.p * a.q
FLeq(a, b) == a.p * b.q <= b.p * a.q
FZero == [p |-> 0, q |-> 1]

\* ------------------------------------------------------------- inputs
Points == [1..NumFeatures -> 0..MaxVal]

\* The four entities A=[0,0], B=[0,1], C=[10,10], D=[10,11].
Scenario1 ==
    << <<0, 0>>, <<0, 1>>, <<10, 10>>, <<10, 11>> >>

\* Four countries whose nearest-neighbour chain finds the farther pair
\* first, so that the sort after the chain reorders the merges.
ChainOrderTable ==
    << <<0, 0>>, <<0, 1>>, <<0, 2>>, <<0, 2>> >>
\* Four countries with two pairs at the same minimal distance.
TieTable ==
    << <<0, 0>>, <<1, 1>>, <<1, 2>>, <<1, 0>> >>

Tables ==
    UNION {[1..n -> Points] : n \in 0..MaxN}
        \cup {Scenario1, ChainOrderTable, TieTable}

\* A threshold is a finite number or +infinity.
Fin(t) == [inf |-> FALSE, val |-> t]
Infinity == [inf |-> TRUE, val |-> 0]
\* The value every call site passes: color_threshold=2.0.
ColorThreshold == 2
Thresholds == {Fin(t) : t \in (0 - 1)..MaxT} \cup {Infinity}

\* ------------------------------------------ StandardScaler.fit_transform
RECURSIVE ColSum(_, _, _)
ColSum(F, d, i) == IF i = 0 THEN 0 ELSE F[i][d] + ColSum(F, d, i - 1)

RECURSIVE ColSumSq(_, _, _)
ColSumSq(F, d, i) ==
    IF i = 0 THEN 0 ELSE F[i][d] * F[i][d] + ColSumSq(F, d, i - 1)

\* n^2 times the population variance of column d.
ColVar(F, d) ==
    LET n == Len(F)
    IN  n * ColSumSq(F, d, n) - ColSum(F, d, n) * ColSum(F, d, n)

\* Bug variant: a zero scale is kept, so a constant column is divided by 0.
fit_transform_zero_scale(F) ==
    LET n == Len(F)
    IN  [num  |-> [i \in 1..n |->
                     [d \in 1..NumFeatures |-> n * F[i][d] - ColSum(F, d, n)]],
         den2 |-> [d \in 1..NumFeatures |-> ColVar(F, d)]]

\* scale_ = sqrt(var_), a zero scale replaced by 1.0 (_handle_zeros_in_scale).
\* The standardized value of row i, column d is num[i][d] / sqrt(den2[d]):
\* (x - mean) / scale = (n*x - sum) / sqrt(n^2 * var).
fit_transform(F) ==
    LET n == Len(F)
    IN  [num  |-> [i \in 1..n |->
                     [d \in 1..NumFeatures |-> n * F[i][d] - ColSum(F, d, n)]],
         den2 |-> [d \in 1..NumFeatures |->
                     IF ColVar(F, d) = 0 THEN n * n ELSE ColVar(F, d)]]

\* ------------------------------------------------------------- pdist
\* Unordered pairs of 0..n-1 stand for the condensed index.
Pair(i, j) == IF i < j THEN <<i, j>> ELSE <<j, i>>
Pairs(n) == {<<i, j>> \in (0..(n - 1)) \X (0..(n - 1)) : i < j}

\* The squared euclidean distance of rows i and j (0-based) of X.
SqEuclidean(X, i, j) ==
    LET d1 == X.num[i + 1][1] - X.num[j + 1][1]
        d2 == X.num[i + 1][2] - X.num[j + 1][2]
    IN  Frac(d1 * d1 * X.den2[2] + d2 * d2 * X.den2[1], X.den2[1] * X.den2[2])

pdist(X) == [pr \in Pairs(Len(X.num)) |-> SqEuclidean(X, pr[1], pr[2])]

\* ------------------------------------------- linkage(y, method='ward')
\* Ward's Lance-Williams update on squared distances:
\* sqrt(((ni+nx)*d_xi^2 + (ni+ny)*d_yi^2 - ni*d_xy^2) / (nx+ny+ni)).
Lcm(a, b) == (a \div Gcd(a, b)) * b

ward(d_xi, d_yi, d_xy, size_x, size_y, size_i) ==
    LET l == Lcm(d_xi.q, Lcm(d_yi.q, d_xy.q))
        t == size_x + size_y + size_i
    IN  Frac((size_i + size_x) * d_xi.p * (l \div d_xi.q)
               + (size_i + size_y) * d_yi.p * (l \div d_yi.q)
               - size_i * d_xy.p * (l \div d_xy.q),
             l * t)

\* for i in range(n): if size[i] > 0: cluster_chain[0] = i; break
RECURSIVE FirstActive(_, _)
FirstActive(size, i) == IF size[i] > 0 THEN i ELSE FirstActive(size, i + 1)

\* for i in range(n): ... if dist < current_min: current_min = dist; y = i
\* best.has is FALSE while current_min is still infinite.
RECURSIVE NearestFrom(_, _, _, _, _, _)
NearestFrom(D, size, n, x, i, best) ==
    IF i = n THEN best
    ELSE IF size[i] = 0 \/ x = i THEN NearestFrom(D, size, n, x, i + 1, best)
    ELSE IF (~best.has) \/ FLess(D[Pair(x, i)], best.min)
         THEN NearestFrom(D, size, n, x, i + 1,
                          [y |-> i, min |-> D[Pair(x, i)], has |-> TRUE])
         ELSE NearestFrom(D, size, n, x, i + 1, best)

\* Go through the chain of neighbours until two mutual neighbours are found;
\* the previous element of the chain is preferred as the minimum.
RECURSIVE GrowChain(_, _, _, _)
GrowChain(D, size, n, chain) ==
    LET len == Len(chain)
        x == chain[len]
        start == IF len > 1
                 THEN [y |-> chain[len - 1], min |-> D[Pair(x, chain[len - 1])],
                       has |-> TRUE]
                 ELSE [y |-> 0, min |-> FZero, has |-> FALSE]
        best == NearestFrom(D, size, n, x, 0, start)
    IN  IF len > 1 /\ best.y = chain[len - 1]
        THEN [chain |-> chain, x |-> x, y |-> best.y, min |-> best.min]
        ELSE GrowChain(D, size, n, Append(chain, best.y))

\* One iteration of "for k in range(n - 1)": find the pair, record the new
\* node, drop cluster x, replace cluster y and update the distance matrix.
MergeStep(st, n) ==
    LET chain0 == IF Len(st.chain) = 0
                  THEN <<FirstActive(st.size, 0)>> ELSE st.chain
        g == GrowChain(st.D, st.size, n, chain0)
        x == IF g.x > g.y THEN g.y ELSE g.x
        y == IF g.x > g.y THEN g.x ELSE g.y
        nx == st.size[x]
        ny == st.size[y]
        size1 == [st.size EXCEPT ![x] = 0, ![y] = nx + ny]
    IN  [D     |-> [pr \in DOMAIN st.D |->
                      LET i == IF pr[1] = y THEN pr[2] ELSE pr[1]
                      IN  IF y \in {pr[1], pr[2]} /\ size1[i] # 0
                          THEN ward(st.D[Pair(i, x)], st.D[pr], g.min,
                                    nx, ny, size1[i])
                          ELSE st.D[pr]],
         size  |-> size1,
         chain |-> SubSeq(g.chain, 1, Len(g.chain) - 2),
         Z     |-> Append(st.Z, [a |-> x, b |-> y, dist |-> g.min,
                                 count |-> nx + ny])]

RECURSIVE MergeLoop(_, _, _)
MergeLoop(st, n, k) == IF k = 0 THEN st ELSE MergeLoop(MergeStep(st, n), n, k - 1)

\* Bug variant: the rows are left in the order the chain found them.
SortByDistance_unsorted(Z, k) == Z

\* order = np.argsort(Z_arr[:, 2], kind='mergesort'): a stable sort.
RECURSIVE InsertStable(_, _)
InsertStable(sorted, row) ==
    IF sorted = << >> THEN <<row>>
    ELSE IF FLess(row.dist, sorted[Len(sorted)].dist)
         THEN Append(InsertStable(SubSeq(sorted, 1, Len(sorted) - 1), row),
                     sorted[Len(sorted)])
         ELSE Append(sorted, row)

RECURSIVE SortByDistance(_, _)
SortByDistance(Z, k) ==
    IF k = 0 THEN << >> ELSE InsertStable(SortByDistance(Z, k - 1), Z[k])

\* Bug variant: the slot is taken for the cluster identifier.
Find_slot(parent, x) == x

\* LinkageUnionFind.find: follow the parents to the root (-1: no parent).
RECURSIVE Find(_, _)
Find(parent, x) == IF parent[x] = 0 - 1 THEN x ELSE Find(parent, parent[x])

\* Bug variant: the second cluster is counted as one entity.
merge_size_plus_one(size_x, size_y) == size_x + 1

\* LinkageUnionFind.merge: the size of the new cluster.
merge_size(size_x, size_y) == size_x + size_y

\* label(Z, n): replace the slots x, y of each row by the identifiers of the
\* clusters they hold; merge number i (0-based) creates cluster n + i.
RECURSIVE LabelLoop(_, _, _, _, _)
LabelLoop(Z, n, i, uf, out) ==
    IF i > Len(Z) THEN out
    ELSE LET x_root == Find(uf.parent, Z[i].a)
             y_root == Find(uf.parent, Z[i].b)
             sz == merge_size(uf.size[x_root], uf.size[y_root])
             nl == n + i - 1
         IN  LabelLoop(Z, n, i + 1,
                 [parent |-> [uf.parent EXCEPT ![x_root] = nl, ![y_root] = nl],
                  size   |-> [uf.size EXCEPT ![nl] = sz]],
                 Append(out, [a     |-> IF x_root < y_root THEN x_root ELSE y_root,
                              b     |-> IF x_root < y_root THEN y_root ELSE x_root,
                              dist  |-> Z[i].dist,
                              count |-> sz]))

label(Z, n) ==
    LabelLoop(Z, n, 1,
              [parent |-> [c \in 0..(2 * n - 2) |-> 0 - 1],
               size   |-> [c \in 0..(2 * n - 2) |-> IF c < n THEN 1 ELSE 0]],
              << >>)

\* _hierarchy.nn_chain(y, n, method_code) before the sort.
nn_chain(y, n) ==
    MergeLoop([D |-> y, size |-> [i \in 0..(n - 1) |-> 1], chain |-> << >>,
               Z |-> << >>], n, n - 1).Z

\* Z[k] = [a, b, dist, count]: clusters a < b merged at distance sqrt(dist)
\* into cluster n + k - 1 holding count entities.
linkage(y, n) == label(SortByDistance(nn_chain(y, n), n - 1), n)

\* ---------------------------------- dendrogram(Z, color_threshold=...)
\* Bug variant: a link is above the threshold only when h > color_threshold.
AboveThreshold_gt(dist, t) ==
    (~t.inf) /\ ~FLeq(dist, [p |-> t.val * t.val, q |-> 1])

\* Bug variant: the comparison is the wrong way round.
AboveThreshold_flipped(dist, t) ==
    t.inf \/ (t.val > 0 /\ FLess(dist, [p |-> t.val * t.val, q |-> 1]))

\* h >= color_threshold or color_threshold <= 0, for h = sqrt(dist).
AboveThreshold(dist, t) ==
    IF t.inf THEN FALSE
    ELSE t.val <= 0 \/ ~FLess(dist, [p |-> t.val * t.val, q |-> 1])

\* Bug variant: the colour is never advanced.
next_color_stuck(current_color, below) == current_color

\* if currently_below_threshold[0]:
\*     current_color[0] = (current_color[0] + 1) % len(_link_line_colors)
next_color(current_color, below) ==
    IF below THEN (current_color + 1) % PaletteLen ELSE current_color

\* Bug variant: a link is drawn above its left child.
midpoint_left(uiva, uivb) == uiva

\* (uiva + uivb) / 2: where the link over two children is drawn.
midpoint(uiva, uivb) ==
    Frac(uiva.p * uivb.q + uivb.p * uiva.q, 2 * uiva.q * uivb.q)

\* _dendrogram_calculate_info(..., i, iv, ...): the left child, then the
\* colour of link i, then the right child, then the link is appended.
\* Colour 0 is above_threshold_color, colour c > 0 is
\* _link_line_colors[c - 1].  A leaf is drawn at iv + 5.0 and is 10.0 wide;
\* x and w are the position and the width the call returns, and xa, xb of a
\* link are the first and the last entry of its icoord row.
RECURSIVE calculate_info(_, _, _, _, _, _)
calculate_info(Z, n, t, i, iv, st) ==
    IF i < n
    THEN [st EXCEPT !.leaves = Append(@, i),
                    !.x = Frac(iv + 5, 1),
                    !.w = 10]
    ELSE LET row == Z[i - n + 1]
             st1 == calculate_info(Z, n, t, row.a, iv, st)
             above == AboveThreshold(row.dist, t)
             c == IF above THEN 0 ELSE st1.current_color + 1
             st2 == IF above
                    THEN [st1 EXCEPT
                            !.current_color =
                                next_color(@, st1.currently_below_threshold),
                            !.currently_below_threshold = FALSE]
                    ELSE [st1 EXCEPT !.currently_below_threshold = TRUE]
             st3 == calculate_info(Z, n, t, row.b, iv + st1.w, st2)
         IN  [st3 EXCEPT !.links = Append(@, [node |-> i, a |-> row.a,
                                              b |-> row.b, h |-> row.dist,
                                              color |-> c,
                                              xa |-> st1.x, xb |-> st3.x]),
                         !.x = midpoint(st1.x, st3.x),
                         !.w = st1.w + st3.w]

\* R = dendrogram(Z, ...): R.leaves is the leaf order, R.links the drawn
\* links in the order icoord/dcoord/color_list list them.
dendrogram(Z, n, t) ==
    LET st == calculate_info(Z, n, t, 2 * n - 2, 0,
                  [leaves |-> << >>, links |-> << >>, current_color |-> 0,
                   currently_below_threshold |-> FALSE, x |-> FZero, w |-> 0])
    IN  [leaves |-> st.leaves, links |-> st.links]

\* ------------------------------------------------------------ the block
N == Len(features)

Init ==
    /\ pc = "start"
    /\ features \in Tables
    /\ color_threshold = Fin(ColorThreshold)
    /\ features_normalized = << >>
    /\ distances = << >>
    /\ linkage_matrix = << >>
    /\ dendro = << >>
    /\ error = ""
    /\ TcfIdle
    /\ CacheIdle
    /\ FetchIdle
    /\ LoadIdle
    /\ OrgIdle
    /\ PipeIdle
    /\ GenIdle
    /\ BudgetIdle
    /\ NetIdle
    /\ CleanIdle
    /\ LaunchIdle

\* Checkpoint3's generate_interactive_dendrogram starts with
\* "if nodes_df is None or len(nodes_df) == 0: return None".
ReturnNone ==
    /\ pc = "start"
    /\ N = 0
    /\ pc' = "none"
    /\ UNCHANGED <<features, color_threshold, features_normalized, distances,
                   linkage_matrix, dendro, error>>
    /\ UNCHANGED notClustering

\* features_normalized = scaler.fit_transform(features); a table without
\* rows makes StandardScaler raise ValueError.
Standardize ==
    /\ pc = "start"
    /\ IF N = 0
       THEN /\ error' = "ValueError"
            /\ pc' = "error"
            /\ UNCHANGED features_normalized
       ELSE /\ features_normalized' = fit_transform(features)
            /\ pc' = "scaled"
            /\ UNCHANGED error
    /\ UNCHANGED <<features, color_threshold, distances, linkage_matrix,
                   dendro>>
    /\ UNCHANGED notClustering

\* distances = pdist(features_normalized, metric='euclidean')
Distances ==
    /\ pc = "scaled"
    /\ distances' = pdist(features_normalized)
    /\ pc' = "pdist"
    /\ UNCHANGED <<features, color_threshold, features_normalized,
                   linkage_matrix, dendro, error>>
    /\ UNCHANGED notClustering

\* Bug variant: linkage accepts the empty distance vector.
Linkage_unguarded ==
    /\ pc = "pdist"
    /\ linkage_matrix' = IF N < 2 THEN << >> ELSE linkage(distances, N)
    /\ pc' = "linked"
    /\ UNCHANGED <<features, color_threshold, features_normalized, distances,
                   dendro, error>>
    /\ UNCHANGED notClustering

\* linkage_matrix = linkage(distances, method='ward'); an empty distance
\* vector (one row) makes linkage raise ValueError.
Linkage ==
    /\ pc = "pdist"
    /\ IF N < 2
       THEN /\ error' = "ValueError"
            /\ pc' = "error"
            /\ UNCHANGED linkage_matrix
       ELSE /\ linkage_matrix' = linkage(distances, N)
            /\ pc' = "linked"
            /\ UNCHANGED error
    /\ UNCHANGED <<features, color_threshold, features_normalized, distances,
                   dendro>>
    /\ UNCHANGED notClustering

\* dendro = dendrogram(linkage_matrix, ..., color_threshold=2.0, ...); the
\* threshold argument ranges over Thresholds, 2.0 among them.
Dendrogram ==
    /\ pc = "linked"
    /\ \E t \in Thresholds :
         /\ color_threshold' = t
         /\ dendro' = dendrogram(linkage_matrix, N, t)
    /\ pc' = "done"
    /\ UNCHANGED <<features, features_normalized, distances, linkage_matrix,
                   error>>
    /\ UNCHANGED notClustering

\* Checkpoint2 lets the exception of the block propagate; Checkpoint3 wraps
\* the block in "except Exception as e: st.error(...); return None".
Except ==
    /\ pc = "error"
    /\ pc' = "none"
    /\ UNCHANGED <<features, color_threshold, features_normalized, distances,
                   linkage_matrix, dendro, error>>
    /\ UNCHANGED notClustering

Next ==
    ReturnNone \/ Standardize \/ Distances \/ Linkage \/ Dendrogram \/ Except

Spec == Init /\ [][Next]_allVars

\* ------------------------------------------- what the dendrogram shows
Entities == 0..(N - 1)
Linked == pc \in {"linked", "done"}
Rendered == pc = "done"

\* The entities under cluster identifier c of merge tree Z.
RECURSIVE LeavesUnder(_, _, _)
LeavesUnder(Z, n, c) ==
    IF c < n THEN {c}
    ELSE LeavesUnder(Z, n, Z[c - n + 1].a) \cup LeavesUnder(Z, n, Z[c - n + 1].b)

\* The colours of the links drawn down to leaf e.
LeafColors(R, e) ==
    {R.links[k].color : k \in {j \in DOMAIN R.links :
                                  R.links[j].a = e \/ R.links[j].b = e}}
LeafColor(R, e) == CHOOSE c \in LeafColors(R, e) : TRUE

\* A flat cluster of the picture is a maximal run of neighbouring leaves
\* drawn in one palette colour; a leaf drawn in above_threshold_color is a
\* cluster of its own.  RunIds(R)[pos] numbers the runs from the left.
LeafColorSeq(R) == [pos \in DOMAIN R.leaves |-> LeafColor(R, R.leaves[pos])]
RECURSIVE RunsOf(_, _)
RunsOf(col, pos) ==
    IF pos = 0 THEN << >>
    ELSE IF pos = 1 THEN <<1>>
    ELSE LET prev == RunsOf(col, pos - 1)
         IN  Append(prev,
                    IF col[pos - 1] = 0 \/ col[pos] = 0 \/ col[pos - 1] # col[pos]
                    THEN prev[pos - 1] + 1 ELSE prev[pos - 1])
RunIds(R) == RunsOf(LeafColorSeq(R), Len(R.leaves))
SameCluster(R, e1, e2) ==
    LET ids == RunIds(R)
    IN  \E p1, p2 \in DOMAIN R.leaves :
            /\ R.leaves[p1] = e1
            /\ R.leaves[p2] = e2
            /\ ids[p1] = ids[p2]
FlatClusters(R, n) ==
    LET ids == RunIds(R)
    IN  {{R.leaves[pos] : pos \in {q \in DOMAIN R.leaves : ids[q] = r}} :
            r \in {ids[q] : q \in DOMAIN R.leaves}}
NumClusters(R, n) == Cardinality(FlatClusters(R, n))

\* Comparisons of a distance sqrt(dist) with a threshold t.
Sq(t) == [p |-> t.val * t.val, q |-> 1]
DistLess(dist, t) == t.inf \/ (t.val > 0 /\ FLess(dist, Sq(t)))
DistLeq(dist, t) == t.inf \/ (t.val >= 0 /\ FLeq(dist, Sq(t)))
ThresholdLess(t, dist) == (~t.inf) /\ (t.val < 0 \/ FLess(Sq(t), dist))
TLess(t1, t2) == (~t1.inf) /\ (t2.inf \/ t1.val < t2.val)

\* e1 and e2 are joined by a merge of Z whose distance is < t (<= t).
ConnectedLess(Z, n, t, e1, e2) ==
    \/ e1 = e2
    \/ \E k \in DOMAIN Z : /\ DistLess(Z[k].dist, t)
                           /\ {e1, e2} \subseteq LeavesUnder(Z, n, n + k - 1)
ConnectedLeq(Z, n, t, e1, e2) ==
    \/ e1 = e2
    \/ \E k \in DOMAIN Z : /\ DistLeq(Z[k].dist, t)
                           /\ {e1, e2} \subseteq LeavesUnder(Z, n, n + k - 1)

\* ------------- create_dendrogram(data, title) of the TCF dashboard
\* A missing cell (NaN) of a table is written -1; feature values are >= 0.
NaN == 0 - 1

TcfTables ==
    UNION {[1..n -> [1..NumFeatures -> (0..MaxVal) \cup {NaN}]] : n \in 1..MaxN}

HasMissing(D) == \E i \in DOMAIN D : \E d \in 1..NumFeatures : D[i][d] = NaN

\* The number and the sum of the cells of column d that are not missing.
RECURSIVE ColCount(_, _, _)
ColCount(D, d, i) ==
    IF i = 0 THEN 0
    ELSE (IF D[i][d] = NaN THEN 0 ELSE 1) + ColCount(D, d, i - 1)
RECURSIVE ColSumPresent(_, _, _)
ColSumPresent(D, d, i) ==
    IF i = 0 THEN 0
    ELSE (IF D[i][d] = NaN THEN 0 ELSE D[i][d]) + ColSumPresent(D, d, i - 1)

\* numeric_data.fillna(numeric_data.mean()): the cell of row i, column d is
\* num[i][d] / den[d], with den[d] the number of cells of the column that
\* are present; a missing cell gets the mean sum / den[d].  A column with
\* no cell present has mean NaN and stays NaN: den[d] = 0.
fillna_mean(D) ==
    LET n == Len(D)
    IN  [num |-> [i \in 1..n |-> [d \in 1..NumFeatures |->
                    IF D[i][d] = NaN THEN ColSumPresent(D, d, n)
                    ELSE ColCount(D, d, n) * D[i][d]]],
         den |-> [d \in 1..NumFeatures |-> ColCount(D, d, n)]]

\* StandardScaler.fit_transform of the filled table.  (x - mean) / scale
\* does not change when a column is multiplied by den[d] > 0, so the
\* numerators are standardized as they are; a NaN column is passed through
\* as NaN, written den2[d] = 0.
tcf_fit_transform(X) ==
    LET base == fit_transform(X.num)
    IN  [num  |-> base.num,
         den2 |-> [d \in 1..NumFeatures |->
                     IF X.den[d] = 0 THEN 0 ELSE base.den2[d]]]

\* The picture without its link colours (create_dendrogram leaves
\* color_threshold at its default; the colours are not modelled here).
Uncoloured(R) ==
    [leaves |-> R.leaves,
     links  |-> [k \in DOMAIN R.links |->
                   [node |-> R.links[k].node, a |-> R.links[k].a,
                    b |-> R.links[k].b, h |-> R.links[k].h,
                    xa |-> R.links[k].xa, xb |-> R.links[k].xb]]]

TcfInit ==
    /\ tcf_pc = "start"
    /\ data \in TcfTables
    /\ numeric_data = << >>
    /\ scaled_data = << >>
    /\ tcf_linkage_matrix = << >>
    /\ fig = << >>
    /\ tcf_error = ""
    /\ ClusteringIdle
    /\ CacheIdle
    /\ FetchIdle
    /\ LoadIdle
    /\ OrgIdle
    /\ PipeIdle
    /\ GenIdle
    /\ BudgetIdle
    /\ NetIdle
    /\ CleanIdle
    /\ LaunchIdle

\* numeric_data = numeric_data.fillna(numeric_data.mean())
Fillna ==
    /\ tcf_pc = "start"
    /\ numeric_data' = fillna_mean(data)
    /\ tcf_pc' = "filled"
    /\ UNCHANGED <<data, scaled_data, tcf_linkage_matrix, fig, tcf_error>>
    /\ UNCHANGED notTcf

\* scaled_data = scaler.fit_transform(numeric_data)
TcfStandardize ==
    /\ tcf_pc = "filled"
    /\ scaled_data' = tcf_fit_transform(numeric_data)
    /\ tcf_pc' = "scaled"
    /\ UNCHANGED <<data, numeric_data, tcf_linkage_matrix, fig, tcf_error>>
    /\ UNCHANGED notTcf

\* linkage_matrix = linkage(scaled_data, method='ward'): the observations
\* go through pdist first; a single row or a NaN distance raises ValueError.
TcfLinkage ==
    /\ tcf_pc = "scaled"
    /\ IF \/ Len(data) < 2
          \/ \E d \in 1..NumFeatures : scaled_data.den2[d] = 0
       THEN /\ tcf_error' = "ValueError"
            /\ tcf_pc' = "error"
            /\ UNCHANGED tcf_linkage_matrix
       ELSE /\ tcf_linkage_matrix' = linkage(pdist(scaled_data), Len(data))
            /\ tcf_pc' = "linked"
            /\ UNCHANGED tcf_error
    /\ UNCHANGED <<data, numeric_data, scaled_data, fig>>
    /\ UNCHANGED notTcf

\* dendrogram(linkage_matrix, labels=..., ax=ax, leaf_rotation=90); return fig
TcfDendrogram ==
    /\ tcf_pc = "linked"
    /\ fig' = Uncoloured(dendrogram(tcf_linkage_matrix, Len(data), Infinity))
    /\ tcf_pc' = "done"
    /\ UNCHANGED <<data, numeric_data, scaled_data, tcf_linkage_matrix,
                   tcf_error>>
    /\ UNCHANGED notTcf

TcfNext == Fillna \/ TcfStandardize \/ TcfLinkage \/ TcfDendrogram

SpecTcf == TcfInit /\ [][TcfNext]_allVars

\* ------------------------------------ @st.cache_data def load_csv(path)
\* Largest version number of the contents of a CSV file.
MaxVersion == 2

Paths == {"edges.csv", "nodes.csv"}
\* A file is missing (0) or holds version 1, 2, ... of its table.
Missing == 0
Contents == 0..MaxVersion
\* load_csv returns None (0) or the DataFrame read from version v (v).
None == 0
\* No entry in the cache, no value returned yet.
NotCached == 0 - 1

\* try: return pd.read_csv(path) / except Exception: return None
load_csv(content) == IF content = Missing THEN None ELSE content

\* Bug variant: the decorated function is run on every call.
st_cache_data_off(entry, value) == value

\* @st.cache_data: the value stored for these arguments if there is one,
\* else the value the function computes now (which is then stored).
st_cache_data(entry, value) == IF entry = NotCached THEN value ELSE entry

CacheInit ==
    /\ csv_files \in [Paths -> Contents]
    /\ cache_data = [p \in Paths |-> NotCached]
    /\ frames = [p \in Paths |-> NotCached]
    /\ last_event = "start"
    /\ ClusteringIdle
    /\ TcfIdle
    /\ FetchIdle
    /\ LoadIdle
    /\ OrgIdle
    /\ PipeIdle
    /\ GenIdle
    /\ BudgetIdle
    /\ NetIdle
    /\ CleanIdle
    /\ LaunchIdle

\* One run of the script: clean_df = load_csv(...), edges_df = load_csv(...),
\* nodes_df = load_csv(...), each call going through the cache.
Rerun ==
    /\ frames' = [p \in Paths |->
                    st_cache_data(cache_data[p], load_csv(csv_files[p]))]
    /\ cache_data' = frames'
    /\ last_event' = "run"
    /\ UNCHANGED csv_files
    /\ UNCHANGED notCache

\* Between two runs a file is rewritten, created or deleted.
WriteCsv ==
    /\ \E p \in Paths : \E c \in Contents \ {csv_files[p]} :
         csv_files' = [csv_files EXCEPT ![p] = c]
    /\ last_event' = "write"
    /\ UNCHANGED <<cache_data, frames>>
    /\ UNCHANGED notCache

\* The server process is started again: its cache is empty.
Restart ==
    /\ last_event # "restart"
    /\ cache_data' = [p \in Paths |-> NotCached]
    /\ frames' = [p \in Paths |-> NotCached]
    /\ last_event' = "restart"
    /\ UNCHANGED csv_files
    /\ UNCHANGED notCache

CacheNext == Rerun \/ WriteCsv \/ Restart

SpecCache == CacheInit /\ [][CacheNext]_allVars

\* ------------------------------ fetch_indicator_latest(indicator, years)
\* Latest year of the requested range (years are numbered from 1).
MaxYear == 2
\* Largest number of pages of an answer, largest number of rows of a page.
MaxPages == 2
PerPage == 2

\* "countryiso3code" of a row; "" stands for a row without one.
Countries == {"ARG", "BRA"}
\* "value": null is written -1, a number v >= 0 is itself.
Null == 0 - 1
Values == {Null, 5}
ApiRows == [country : Countries \cup {""}, date : 1..MaxYear, value : Values]
ApiPage == UNION {[1..k -> ApiRows] : k \in 0..PerPage}
ApiAnswers == UNION {[1..k -> ApiPage] : k \in 1..MaxPages}
\* preferred_years of main() is newest first; the other order and a list
\* that leaves a year of the range out are tried too.
YearLists == {<<2, 1>>, <<1, 2>>, <<2>>}

\* years.index(y)
index(ys, y) == CHOOSE k \in DOMAIN ys : ys[k] = y /\ \A j \in 1..(k - 1) : ys[j] # y
InList(ys, y) == \E k \in DOMAIN ys : ys[k] = y

\* results[country] = (year, value)
Store(res, country, year, value) ==
    [c \in DOMAIN res \cup {country} |->
        IF c = country THEN [year |-> year, value |-> value] ELSE res[c]]

\* The body of "for row in rows".
process_row(res, row, ys) ==
    IF row.country = "" THEN res
    ELSE IF ~InList(ys, row.date) THEN res
    ELSE IF row.country \notin DOMAIN res
         THEN Store(res, row.country, row.date, row.value)
    ELSE IF /\ res[row.country].value = Null
            /\ index(ys, row.date) < index(ys, res[row.country].year)
         THEN Store(res, row.country, row.date, row.value)
    ELSE res

RECURSIVE process_rows(_, _, _, _)
process_rows(res, rows, ys, i) ==
    IF i = 0 THEN res
    ELSE process_row(process_rows(res, rows, ys, i - 1), rows[i], ys)

FetchInit ==
    /\ fetch_pc = "request"
    /\ years \in YearLists
    /\ api_pages \in ApiAnswers
    /\ page = 1
    /\ results = << >>
    /\ ClusteringIdle
    /\ TcfIdle
    /\ CacheIdle
    /\ LoadIdle
    /\ OrgIdle
    /\ PipeIdle
    /\ GenIdle
    /\ BudgetIdle
    /\ NetIdle
    /\ CleanIdle
    /\ LaunchIdle

\* One turn of "while True": http_get_json for the page, the loop over its
\* rows, then "if page >= meta.get('pages', 1): break" or "page += 1".
FetchPage ==
    /\ fetch_pc = "request"
    /\ results' = process_rows(results, api_pages[page], years,
                               Len(api_pages[page]))
    /\ IF page >= Len(api_pages)
       THEN fetch_pc' = "returned" /\ UNCHANGED page
       ELSE page' = page + 1 /\ UNCHANGED fetch_pc
    /\ UNCHANGED <<years, api_pages>>
    /\ UNCHANGED notFetch

FetchNext == FetchPage

SpecFetch == FetchInit /\ [][FetchNext]_allVars

\* All rows of the answer, and the places in ys of the years for which
\* the answer has a number for country c.
AllRows == UNION {{api_pages[k][i] : i \in DOMAIN api_pages[k]} : k \in DOMAIN api_pages}
YearsWithValue(c) ==
    {k \in DOMAIN years :
        /\ \A j \in 1..(k - 1) : years[j] # years[k]
        /\ \E row \in AllRows :
              row.country = c /\ row.date = years[k] /\ row.value # Null}

\* ------------------- test_data_loading() and the executive dashboard
\* A CSV file is missing, or cannot be used (pd.read_csv raises, or a
\* column the code maps is not there), or has its header and no data row,
\* or has data rows.
FileStates == {"missing", "malformed", "header", "rows"}
Exists(f) == f # "missing"
\* pd.read_csv(path) and the column mappings: "raise", or the frame read,
\* "empty" when it has no row.
read_frame(f) ==
    IF f = "malformed" THEN "raise"
    ELSE IF f = "header" THEN "empty" ELSE "rows"

\* test_data_loading(): the value returned.
test_data_loading(fi, fc, pandas) ==
    IF ~Exists(fi) \/ ~Exists(fc) THEN FALSE
    ELSE IF ~pandas THEN FALSE
    ELSE IF read_frame(fi) = "raise" \/ read_frame(fc) = "raise" THEN FALSE
    ELSE TRUE

\* load_data() of the dashboard: a missing file gives pd.DataFrame(), any
\* exception gives st.error and two empty frames.
load_data(fi, fc) ==
    LET di == IF Exists(fi) THEN read_frame(fi) ELSE "empty"
        dc == IF Exists(fc) THEN read_frame(fc) ELSE "empty"
    IN  IF di = "raise" \/ dc = "raise"
        THEN [df_integrated |-> "empty", df_country |-> "empty", error |-> TRUE]
        ELSE [df_integrated |-> di, df_country |-> dc, error |-> FALSE]

\* Bug variant: the dashboard stops only when both frames are empty.
must_stop_both(di, dc) == di = "empty" /\ dc = "empty"

\* if df_integrated.empty or df_country.empty:
must_stop(di, dc) == di = "empty" \/ dc = "empty"

LoadInit ==
    /\ integrated_csv \in FileStates
    /\ country_csv \in FileStates
    /\ pandas_installed \in BOOLEAN
    /\ test_result = "not run"
    /\ dash_pc = "start"
    /\ df_integrated = "unset"
    /\ df_country = "unset"
    /\ shown = {}
    /\ ClusteringIdle
    /\ TcfIdle
    /\ CacheIdle
    /\ FetchIdle
    /\ OrgIdle
    /\ PipeIdle
    /\ GenIdle
    /\ BudgetIdle
    /\ NetIdle
    /\ CleanIdle
    /\ LaunchIdle

\* python test_data_loading.py
TestDataLoading ==
    /\ test_result = "not run"
    /\ test_result' = IF test_data_loading(integrated_csv, country_csv,
                                           pandas_installed)
                      THEN "True" ELSE "False"
    /\ UNCHANGED <<integrated_csv, country_csv, pandas_installed, dash_pc,
                   df_integrated, df_country, shown>>
    /\ UNCHANGED notLoad

\* st.title(...); df_integrated, df_country = load_data()
LoadData ==
    /\ dash_pc = "start"
    /\ LET r == load_data(integrated_csv, country_csv)
       IN  /\ df_integrated' = r.df_integrated
           /\ df_country' = r.df_country
           /\ shown' = {"title"} \cup (IF r.error THEN {"load error"} ELSE {})
    /\ dash_pc' = "loaded"
    /\ UNCHANGED <<integrated_csv, country_csv, pandas_installed, test_result>>
    /\ UNCHANGED notLoad

\* if df_integrated.empty or df_country.empty: st.error(...); st.stop()
StopIfEmpty ==
    /\ dash_pc = "loaded"
    /\ IF must_stop(df_integrated, df_country)
       THEN /\ shown' = shown \cup {"no data error"}
            /\ dash_pc' = "stopped"
       ELSE /\ dash_pc' = "sidebar"
            /\ UNCHANGED shown
    /\ UNCHANGED <<integrated_csv, country_csv, pandas_installed, test_result,
                   df_integrated, df_country>>
    /\ UNCHANGED notLoad

\* st.sidebar.header, the two multiselect filters, the filtered frames
Sidebar ==
    /\ dash_pc = "sidebar"
    /\ shown' = shown \cup {"filters"}
    /\ dash_pc' = "tabs"
    /\ UNCHANGED <<integrated_csv, country_csv, pandas_installed, test_result,
                   df_integrated, df_country>>
    /\ UNCHANGED notLoad

\* st.tabs([...]) and the charts of the tabs
TabsAndCharts ==
    /\ dash_pc = "tabs"
    /\ shown' = shown \cup {"tabs", "charts"}
    /\ dash_pc' = "end"
    /\ UNCHANGED <<integrated_csv, country_csv, pandas_installed, test_result,
                   df_integrated, df_country>>
    /\ UNCHANGED notLoad

LoadNext == TestDataLoading \/ LoadData \/ StopIfEmpty \/ Sidebar \/ TabsAndCharts

SpecLoad == LoadInit /\ [][LoadNext]_allVars

\* ------------------------------------- the labels/parents hierarchy
\* Largest number of rows of a generated labels/parents table.
MaxOrgRows == 3
\* The depth at which Python gives up a recursion with RecursionError
\* (sys.getrecursionlimit(), 1000 by default), scaled to the small tables:
\* above the depth of any chain of parents without a cycle.
RecursionLimit == 5
\* The turn at which the loop of _count_hierarchy_levels is no longer
\* followed; a loop that ends, ends within Len(org_data) + 1 turns.
MaxLevels == 5

Labels == {"A", "B", "C"}
OrgRows == [labels : Labels, parents : Labels \cup {""}]
OrgTables == UNION {[1..n -> OrgRows] : n \in 1..MaxOrgRows}

\* cleaned_org_data[cleaned_org_data['labels'] == current]: the row numbers
RowsLabelled(T, l) == {i \in DOMAIN T : T[i].labels = l}
First(S) == CHOOSE i \in S : \A j \in S : i <= j
Last(S) == CHOOSE i \in S : \A j \in S : j <= i

\* The while loop of _is_circular_reference: the value of current when the
\* loop is left.
RECURSIVE WalkUp(_, _, _)
WalkUp(T, visited, current) ==
    IF current = "" \/ current \in visited THEN current
    ELSE IF RowsLabelled(T, current) = {} THEN current
    ELSE WalkUp(T, visited \cup {current},
                T[First(RowsLabelled(T, current))].parents)

\* _is_circular_reference(node, parent)
is_circular_reference(T, node, parent) == WalkUp(T, {}, parent) = node

\* _validate_hierarchy(): the two kinds of warning it logs
validate_hierarchy(T) ==
    [orphaned |-> ({T[i].parents : i \in DOMAIN T} \ {""})
                      \ {T[i].labels : i \in DOMAIN T},
     circular |-> {i \in DOMAIN T :
                      /\ T[i].parents # ""
                      /\ is_circular_reference(T, T[i].labels, T[i].parents)}]

\* parents_dict = dict(zip(org_prep['labels'], org_prep['parents'])): of two
\* rows with one label the later one wins.
InDict(T, l) == RowsLabelled(T, l) # {}
parents_dict(T, l) == T[Last(RowsLabelled(T, l))].parents

OrgInit ==
    /\ org_data \in OrgTables
    /\ org_pc = "start"
    /\ warnings = << >>
    /\ cl_label = ""
    /\ level = 0
    /\ levels = 0
    /\ current_level = {}
    /\ ClusteringIdle
    /\ TcfIdle
    /\ CacheIdle
    /\ FetchIdle
    /\ LoadIdle
    /\ PipeIdle
    /\ GenIdle
    /\ BudgetIdle
    /\ NetIdle
    /\ CleanIdle
    /\ LaunchIdle

\* self._validate_hierarchy()
ValidateHierarchy ==
    /\ org_pc = "start"
    /\ warnings' = validate_hierarchy(org_data)
    /\ org_pc' = "validated"
    /\ UNCHANGED <<org_data, cl_label, level, levels, current_level>>
    /\ UNCHANGED notOrg

\* org_prep['labels'].apply(lambda x: calculate_level(x, parents_dict)),
\* for one row
CallCalculateLevel ==
    /\ org_pc = "start"
    /\ \E i \in DOMAIN org_data : cl_label' = org_data[i].labels
    /\ level' = 0
    /\ org_pc' = "calculate_level"
    /\ UNCHANGED <<org_data, warnings, levels, current_level>>
    /\ UNCHANGED notOrg

\* One frame of calculate_level(label, parents_dict, level): it returns,
\* or it calls itself for the parent, or the interpreter refuses the call.
CalculateLevel ==
    /\ org_pc = "calculate_level"
    /\ IF cl_label = "" \/ ~InDict(org_data, cl_label)
       THEN org_pc' = "level returned" /\ UNCHANGED <<cl_label, level>>
       ELSE IF parents_dict(org_data, cl_label) = ""
       THEN org_pc' = "level returned" /\ level' = level + 1 /\ UNCHANGED cl_label
       ELSE IF level + 1 >= RecursionLimit
       THEN org_pc' = "RecursionError" /\ UNCHANGED <<cl_label, level>>
       ELSE /\ cl_label' = parents_dict(org_data, cl_label)
            /\ level' = level + 1
            /\ UNCHANGED org_pc
    /\ UNCHANGED <<org_data, warnings, levels, current_level>>
    /\ UNCHANGED notOrg

\* _count_hierarchy_levels(): levels = 0; current_level = set([''])
CallCountLevels ==
    /\ org_pc = "start"
    /\ levels' = 0
    /\ current_level' = {""}
    /\ org_pc' = "count_levels"
    /\ UNCHANGED <<org_data, warnings, cl_label, level>>
    /\ UNCHANGED notOrg

\* One turn of "while current_level:", or "return levels".
CountLevels ==
    /\ org_pc = "count_levels"
    /\ levels < MaxLevels
    /\ IF current_level = {}
       THEN org_pc' = "levels returned" /\ UNCHANGED <<levels, current_level>>
       ELSE LET next_level == {org_data[i].labels :
                                  i \in {j \in DOMAIN org_data :
                                            org_data[j].parents \in current_level}}
            IN  /\ levels' = IF next_level # {} THEN levels + 1 ELSE levels
                /\ current_level' = next_level
                /\ UNCHANGED org_pc
    /\ UNCHANGED <<org_data, warnings, cl_label, level>>
    /\ UNCHANGED notOrg

OrgNext ==
    \/ ValidateHierarchy
    \/ CallCalculateLevel
    \/ CalculateLevel
    \/ CallCountLevels
    \/ CountLevels

SpecOrg == OrgInit /\ [][OrgNext]_allVars

\* The labels reached from label l by following parent links upward, l
\* itself included, in at most k steps.
RECURSIVE Ancestors(_, _, _)
Ancestors(T, S, k) ==
    IF k = 0 THEN S
    ELSE Ancestors(T, S \cup {T[i].parents : i \in {j \in DOMAIN T : T[j].labels \in S}},
                   k - 1)
\* Row i lies on a parent cycle: its own label is reached from its parent.
OnCycle(T, i) ==
    /\ T[i].parents # ""
    /\ T[i].labels \in Ancestors(T, {T[i].parents}, Len(T))

\* ------------------------------------------------- the two pipelines
\* The steps of each pipeline in the order of its body; the last one saves.
Steps(p) ==
    IF p = "cleaning"
    THEN <<"load_data", "validate_country_data", "validate_org_data",
           "clean_country_data", "clean_org_data", "save_cleaned_data">>
    ELSE <<"load_cleaned_data", "prepare_country_data", "prepare_org_data",
           "create_clustering_data", "create_visualization_metadata",
           "generate_insights", "save_prepared_data">>

\* What the load step can find for one file: no file, a file read_csv fails
\* on, a table without the required columns, a table with them.
PipeFileStates == {"missing", "unreadable", "bad_columns", "ok"}

\* load_data / load_cleaned_data: False for a missing file, False as well for
\* an exception of read_csv (caught inside the step), True otherwise.
load_outcome(c, o) ==
    IF c \in {"missing", "unreadable"} \/ o \in {"missing", "unreadable"}
    THEN "False" ELSE "True"

\* validate_country_data / validate_org_data: False for missing columns.
validate_outcome(f) == IF f = "bad_columns" THEN "False" ELSE "True"

\* The outcomes a step can have on the loaded tables.  The steps after
\* validation, and every step of the preparation pipeline after loading,
\* return True or let an exception of pandas escape (a KeyError on a missing
\* column, a RecursionError on a cyclic hierarchy, an OSError on saving).
step_outcomes(s, c, o) ==
    IF s \in {"load_data", "load_cleaned_data"} THEN {load_outcome(c, o)}
    ELSE IF s = "validate_country_data" THEN {validate_outcome(c)}
    ELSE IF s = "validate_org_data" THEN {validate_outcome(o)}
    ELSE {"True", "raised"}

pipeline_continues_always(outcome) == outcome # "raised"

\* `if not self.step(): return False`: the pipeline goes on to the next step
\* only when the step returned True.
pipeline_continues(outcome) == outcome = "True"

PipeInit ==
    /\ pipeline \in {"cleaning", "preparation"}
    /\ country_file \in PipeFileStates
    /\ org_file \in PipeFileStates
    /\ next_step = 1
    /\ step_log = <<>>
    /\ pipeline_return = ""
    /\ TcfIdle
    /\ ClusteringIdle
    /\ CacheIdle
    /\ FetchIdle
    /\ LoadIdle
    /\ OrgIdle
    /\ GenIdle
    /\ BudgetIdle
    /\ NetIdle
    /\ CleanIdle
    /\ LaunchIdle

\* One `if not self.<step>(): ... return False` of the pipeline body.
RunStep ==
    /\ pipeline_return = ""
    /\ next_step < Len(Steps(pipeline))
    /\ \E outcome \in step_outcomes(Steps(pipeline)[next_step],
                                    country_file, org_file) :
        /\ step_log' = Append(step_log,
                [step |-> Steps(pipeline)[next_step], outcome |-> outcome])
        /\ IF pipeline_continues(outcome)
           THEN next_step' = next_step + 1 /\ pipeline_return' = ""
           ELSE next_step' = next_step /\ pipeline_return' = outcome
    /\ UNCHANGED <<pipeline, country_file, org_file>>
    /\ UNCHANGED notPipe

\* self.save_cleaned_data() / self.save_prepared_data(), then `return True`.
SaveStep ==
    /\ pipeline_return = ""
    /\ next_step = Len(Steps(pipeline))
    /\ \E outcome \in {"None", "raised"} :
        /\ step_log' = Append(step_log,
                [step |-> Steps(pipeline)[next_step], outcome |-> outcome])
        /\ pipeline_return' = IF outcome = "raised" THEN "raised" ELSE "True"
    /\ next_step' = next_step
    /\ UNCHANGED <<pipeline, country_file, org_file>>
    /\ UNCHANGED notPipe

PipeNext == RunStep \/ SaveStep

SpecPipe == PipeInit /\ [][PipeNext]_allVars

\* ------------------------------------------------- generator runs
\* The generator lists, in the order of the `visualizations` lists; for the
\* temporal script the charts in the order of the function body.
Generators(run) ==
    IF run = "hierarchical"
    THEN <<"generate_treemap_static", "generate_treemap_interactive",
           "generate_dendrogram", "generate_sunburst_geographic",
           "generate_sunburst_organizational",
           "generate_circular_treemap_economic",
           "generate_circular_treemap_budget",
           "generate_comparative_analysis", "generate_insights_dashboard">>
    ELSE IF run = "advanced"
    THEN <<"create_enhanced_treemap", "create_advanced_dendrogram",
           "create_interactive_dashboard", "create_custom_visualizations">>
    ELSE <<"category_timeline", "region_timeline", "volatility_timeline",
           "distribution_area", "category_bars">>

\* The output files of each generator.
FilesOf(g) ==
    CASE g = "generate_treemap_static" -> {"treemap_static.png"}
      [] g = "generate_treemap_interactive" -> {"treemap_interactive.html"}
      [] g = "generate_dendrogram" -> {"dendrogram.png"}
      [] g = "generate_sunburst_geographic" -> {"sunburst_geographic.html"}
      [] g = "generate_sunburst_organizational"
            -> {"sunburst_organizational.html"}
      [] g = "generate_circular_treemap_economic"
            -> {"circular_treemap_economic.html"}
      [] g = "generate_circular_treemap_budget"
            -> {"circular_treemap_budget.html"}
      [] g = "generate_comparative_analysis" -> {"comparative_analysis.png"}
      [] g = "generate_insights_dashboard" -> {"insights_dashboard.png"}
      [] g = "create_enhanced_treemap" -> {"enhanced_treemap.png"}
      [] g = "create_advanced_dendrogram" -> {"advanced_dendrogram.png"}
      [] g = "create_interactive_dashboard" -> {"advanced_dashboard.html"}
      [] g = "create_custom_visualizations"
            -> {"correlation_heatmap.png", "distribution_analysis.png"}
      [] g = "category_timeline" -> {"interest_by_category_timeline.html"}
      [] g = "region_timeline" -> {"interest_by_region_timeline.html"}
      [] g = "volatility_timeline"
            -> {"volatility_by_category_timeline.html"}
      [] g = "distribution_area" -> {"interest_distribution_area.html"}
      [] g = "category_bars" -> {"interest_by_category_bars.html"}

\* The files an index names: the nine links of the fixed HTML text of
\* index.html, the five "file" entries of temporal_viz_index.json; the
\* advanced summary names no file.
IndexFiles(run) ==
    IF run = "advanced" THEN {}
    ELSE UNION {FilesOf(Generators(run)[i]) :
                    i \in 1..Len(Generators(run))}

\* The input files each run looks for.
InputsOf(run) ==
    IF run = "temporal" THEN {"daily_category", "daily_region"}
    ELSE IF run = "advanced" THEN {"country", "org"}
    ELSE {"country", "org", "budget", "insights"}

\* The files without which the load step returns False: the three prepared
\* tables of load_prepared_data, the daily category table of the temporal
\* script; load_data of the advanced generator only warns.
RequiredInputs(run) ==
    IF run = "temporal" THEN {"daily_category"}
    ELSE IF run = "advanced" THEN {}
    ELSE {"country", "org", "budget"}

\* The datasets a generator returns False without (its `is None` guard).
NeededData(g) ==
    IF g = "create_interactive_dashboard" THEN {"country", "org"}
    ELSE IF g \in {"create_enhanced_treemap", "create_advanced_dendrogram",
                   "create_custom_visualizations"} THEN {"country"}
    ELSE {}

\* The outcomes of one generator call and the files it has written by then.
\* generate_insights_dashboard returns True without a file when no insights
\* were loaded; an advanced generator catches the errors of its single
\* charts, so it returns True with any part of its files written.
generator_results(run, g, have) ==
    IF ~(NeededData(g) \subseteq have)
    THEN {[outcome |-> "False", files |-> {}]}
    ELSE IF g = "generate_insights_dashboard" /\ "insights" \notin have
    THEN {[outcome |-> "True", files |-> {}]}
    ELSE IF run = "advanced"
    THEN {[outcome |-> "True", files |-> w] : w \in SUBSET FilesOf(g)}
            \cup {[outcome |-> "raised", files |-> {}]}
    ELSE {[outcome |-> "True", files |-> FilesOf(g)],
          [outcome |-> "raised", files |-> {}]}

counts_as_success_always(outcome) == TRUE

\* `if viz_func(): success_count += 1` inside try/except.
counts_as_success(outcome) == outcome = "True"

GenInit ==
    /\ gen_run \in {"hierarchical", "advanced", "temporal"}
    /\ input_files \in SUBSET InputsOf(gen_run)
    /\ gen_pc = "load"
    /\ loaded = {}
    /\ gen_log = <<>>
    /\ success_count = 0
    /\ written = {}
    /\ index_written = FALSE
    /\ index_listed = {}
    /\ gen_return = ""
    /\ TcfIdle
    /\ ClusteringIdle
    /\ CacheIdle
    /\ FetchIdle
    /\ LoadIdle
    /\ OrgIdle
    /\ PipeIdle
    /\ BudgetIdle
    /\ NetIdle
    /\ CleanIdle
    /\ LaunchIdle

\* load_prepared_data / load_data / the loading lines of generate_temporal_viz:
\* False for a missing required file or a caught exception.
LoadPrepared ==
    /\ gen_pc = "load"
    /\ \E exception \in BOOLEAN :
        IF exception \/ ~(RequiredInputs(gen_run) \subseteq input_files)
        THEN /\ gen_pc' = "done"
             /\ gen_return' = "False"
             /\ loaded' = loaded
        ELSE /\ gen_pc' = "generate"
             /\ gen_return' = ""
             /\ loaded' = input_files
    /\ UNCHANGED <<gen_run, input_files, gen_log, success_count, written,
                   index_written, index_listed>>
    /\ UNCHANGED notGen

\* One iteration of `for viz_func in visualizations: try: ... except`.
Generate ==
    /\ gen_pc = "generate"
    /\ gen_run \in {"hierarchical", "advanced"}
    /\ LET g == Generators(gen_run)[Len(gen_log) + 1]
       IN \E r \in generator_results(gen_run, g, loaded) :
            /\ gen_log' = Append(gen_log, [gen |-> g, outcome |-> r.outcome])
            /\ written' = written \cup r.files
            /\ success_count' = IF counts_as_success(r.outcome)
                                THEN success_count + 1 ELSE success_count
    /\ gen_pc' = IF Len(gen_log') = Len(Generators(gen_run))
                 THEN "index" ELSE "generate"
    /\ UNCHANGED <<gen_run, input_files, loaded, index_written, index_listed,
                   gen_return>>
    /\ UNCHANGED notGen

\* _create_visualization_index / _create_advanced_summary, then
\* `return success_count == len(visualizations)`.
CreateIndex ==
    /\ gen_pc = "index"
    /\ gen_run \in {"hierarchical", "advanced"}
    /\ index_written' = TRUE
    /\ index_listed' = IndexFiles(gen_run)
    /\ gen_return' = IF success_count = Len(Generators(gen_run))
                     THEN "True" ELSE "False"
    /\ gen_pc' = "done"
    /\ UNCHANGED <<gen_run, input_files, loaded, gen_log, success_count,
                   written>>
    /\ UNCHANGED notGen

\* The next chart of generate_temporal_viz: the region chart is skipped when
\* the region table was not loaded.
next_chart(log, have) ==
    LET last == IF log = <<>> THEN 0
                ELSE CHOOSE i \in 1..Len(Generators("temporal")) :
                        Generators("temporal")[i] = log[Len(log)].gen
        nxt == IF last + 1 = 2 /\ "daily_region" \notin have
               THEN last + 2 ELSE last + 1
    IN nxt

\* One chart of generate_temporal_viz: write_html, or an exception caught by
\* the function's except clause, which returns False.
TemporalChart ==
    /\ gen_pc = "generate"
    /\ gen_run = "temporal"
    /\ LET g == Generators("temporal")[next_chart(gen_log, loaded)]
       IN \E r \in generator_results(gen_run, g, loaded) :
            /\ gen_log' = Append(gen_log, [gen |-> g, outcome |-> r.outcome])
            /\ written' = written \cup r.files
            /\ IF r.outcome = "raised"
               THEN gen_pc' = "done" /\ gen_return' = "False"
               ELSE /\ gen_return' = ""
                    /\ gen_pc' = IF g = "category_bars"
                                 THEN "index" ELSE "generate"
    /\ UNCHANGED <<gen_run, input_files, loaded, success_count, index_written,
                   index_listed>>
    /\ UNCHANGED notGen

\* Step 6 of generate_temporal_viz: temporal_viz_index.json, `return True`.
TemporalIndex ==
    /\ gen_pc = "index"
    /\ gen_run = "temporal"
    /\ index_written' = TRUE
    /\ index_listed' = IndexFiles(gen_run)
    /\ gen_return' = "True"
    /\ gen_pc' = "done"
    /\ UNCHANGED <<gen_run, input_files, loaded, gen_log, success_count,
                   written>>
    /\ UNCHANGED notGen

GenNext ==
    LoadPrepared \/ Generate \/ CreateIndex \/ TemporalChart \/ TemporalIndex

SpecGen == GenInit /\ [][GenNext]_allVars

\* ------------------------------------------------- budget preparation
MaxBudgetRows == 2
MaxEmployees == 2

base_budget_per_employee == 100000

\* budget_multipliers in dict order, the multipliers in tenths (1.2 is 12).
Departments == <<"Engineering", "Product", "Sales", "Operations", "Company">>

budget_multipliers ==
    [d \in {Departments[i] : i \in 1..Len(Departments)} |->
        CASE d = "Engineering" -> 12
          [] d = "Product" -> 11
          [] d = "Sales" -> 13
          [] d = "Operations" -> 9
          [] d = "Company" -> 10]

\* Unit names are sequences of words; the empty name is the root's parent.
BudgetLabels ==
    {<<"Company">>, <<"Engineering">>, <<"Sales">>, <<"Backend">>,
     <<"Product", "Management">>, <<"Sales", "Engineering">>}

BudgetParents == {<<>>, <<"Company">>, <<"Engineering">>, <<"Sales">>}

BudgetRows ==
    [labels : BudgetLabels, parents : BudgetParents, values : 1..MaxEmployees]

BudgetTables ==
    UNION {[1..n -> BudgetRows] : n \in 1..MaxBudgetRows}

\* Series.str.contains(dept): dept occurs inside the label.  A department
\* name is one word, so it occurs in a name iff it is one of its words.
contains(name, dept) == \E i \in 1..Len(name) : name[i] = dept

\* mask = labels.str.contains(dept, na=False) | (parents == dept)
mask(row, dept) == contains(row.labels, dept) \/ row.parents = <<dept>>

BudgetInit ==
    /\ budget_org \in BudgetTables
    /\ budget_data = <<>>
    /\ dept_index = 0 - 1
    /\ TcfIdle
    /\ ClusteringIdle
    /\ CacheIdle
    /\ FetchIdle
    /\ LoadIdle
    /\ OrgIdle
    /\ PipeIdle
    /\ GenIdle
    /\ NetIdle
    /\ CleanIdle
    /\ LaunchIdle

\* budget_data = org.copy(); budget_data['budget'] = values * 100000
BaseBudget ==
    /\ dept_index = 0 - 1
    /\ budget_data' = [i \in 1..Len(budget_org) |->
            [labels |-> budget_org[i].labels,
             parents |-> budget_org[i].parents,
             values |-> budget_org[i].values,
             budget |-> budget_org[i].values * base_budget_per_employee]]
    /\ dept_index' = 0
    /\ UNCHANGED budget_org
    /\ UNCHANGED notBudget

\* One iteration of `for dept, multiplier in budget_multipliers.items()`:
\* budget_data.loc[mask, 'budget'] *= multiplier.  The base budget is a
\* multiple of 10^5, so the division by ten is exact for all five factors.
ApplyMultiplier ==
    /\ dept_index >= 0
    /\ dept_index < Len(Departments)
    /\ LET dept == Departments[dept_index + 1]
       IN budget_data' = [i \in 1..Len(budget_data) |->
            IF mask(budget_data[i], dept)
            THEN [budget_data[i] EXCEPT
                    !.budget = (@ * budget_multipliers[dept]) \div 10]
            ELSE budget_data[i]]
    /\ dept_index' = dept_index + 1
    /\ UNCHANGED budget_org
    /\ UNCHANGED notBudget

BudgetNext == BaseBudget \/ ApplyMultiplier

SpecBudget == BudgetInit /\ [][BudgetNext]_allVars

\* ------------------------------------------------- network dashboard
MaxCommunities == 2
MaxSize == 16
MaxNetNodes == 2
MaxEdges == 2

\* load_csv returned None.
NoFrame == [loaded |-> FALSE, rows |-> <<>>]

LoadedFrames(Rows, maxLen) ==
    {[loaded |-> TRUE, rows |-> r] :
        r \in UNION {[1..n -> Rows] : n \in 0..maxLen}}

\* The clean communities table: row i is community i with its size_cleaned.
CleanFrames == {NoFrame} \cup LoadedFrames(1..MaxSize, MaxCommunities)

\* The edge list: one row per (source, target) pair the file holds.
EdgeFrames ==
    {NoFrame} \cup LoadedFrames((1..MaxNetNodes) \X (1..MaxNetNodes), MaxEdges)

\* The node table: n rows, one per node.
NodeFrames ==
    {NoFrame} \cup {[loaded |-> TRUE, rows |-> [i \in 1..n |-> i]] :
                        n \in 0..MaxNetNodes}

len(df) == Len(df.rows)

\* size_group of generate_hierarchy_treemap.
size_group(size) ==
    IF size >= 15 THEN "Big (>=15 people)"
    ELSE IF size >= 8 THEN "Medium (8-14 people)"
    ELSE "Small (3-7 people)"

\* generate_hierarchy_treemap: None (here the empty table) for an empty
\* clean_df, else one row per (size_group, community_id) with the summed
\* size_cleaned.
generate_hierarchy_treemap(df) ==
    {[size_group |-> size_group(df.rows[i]), community_id |-> i,
      members_count |-> df.rows[i]] : i \in 1..len(df)}

\* density of the advanced overview.
approx_density(edges, nodes) ==
    LET total_edges == IF edges.loaded THEN len(edges) ELSE 0
        total_nodes == IF nodes.loaded THEN len(nodes) ELSE 0
    IN IF edges.loaded /\ nodes.loaded /\ total_nodes > 1
       THEN Frac(2 * total_edges, total_nodes * (total_nodes - 1))
       ELSE FZero

NetInit ==
    /\ clean_df \in CleanFrames
    /\ edges_df \in EdgeFrames
    /\ nodes_df \in NodeFrames
    /\ hier_file \in BOOLEAN
    /\ hier_source = "none"
    /\ hier_df = {}
    /\ simple_mode \in BOOLEAN
    /\ density = FZero
    /\ net_pc = "loaded"
    /\ TcfIdle
    /\ ClusteringIdle
    /\ CacheIdle
    /\ FetchIdle
    /\ LoadIdle
    /\ OrgIdle
    /\ PipeIdle
    /\ GenIdle
    /\ BudgetIdle
    /\ CleanIdle
    /\ LaunchIdle

\* hier_df = load_csv(HIER_TREEMAP); if hier_df is None and clean_df is not
\* None: hier_df = generate_hierarchy_treemap(clean_df).  The rows of a
\* hierarchy file are not modelled.
ResolveHierarchy ==
    /\ net_pc = "loaded"
    /\ IF hier_file
       THEN hier_source' = "file" /\ hier_df' = {}
       ELSE IF clean_df.loaded /\ len(clean_df) > 0
       THEN /\ hier_source' = "generated"
            /\ hier_df' = generate_hierarchy_treemap(clean_df)
       ELSE hier_source' = "none" /\ hier_df' = {}
    /\ net_pc' = "hierarchy"
    /\ UNCHANGED <<clean_df, edges_df, nodes_df, hier_file, simple_mode,
                   density>>
    /\ UNCHANGED notNet

\* `if simple_mode:` the KPI view, which shows no density.
SimpleMode ==
    /\ net_pc = "hierarchy"
    /\ simple_mode
    /\ net_pc' = "shown"
    /\ UNCHANGED <<clean_df, edges_df, nodes_df, hier_file, hier_source,
                   hier_df, simple_mode, density>>
    /\ UNCHANGED notNet

\* `else:` the overview tab with its four metrics.
AdvancedOverview ==
    /\ net_pc = "hierarchy"
    /\ ~simple_mode
    /\ density' = approx_density(edges_df, nodes_df)
    /\ net_pc' = "shown"
    /\ UNCHANGED <<clean_df, edges_df, nodes_df, hier_file, hier_source,
                   hier_df, simple_mode>>
    /\ UNCHANGED notNet

NetNext == ResolveHierarchy \/ SimpleMode \/ AdvancedOverview

SpecNet == NetInit /\ [][NetNext]_allVars

\* ------------------------------------------------- clean_org_data
MaxCleanRows == 2
MaxNegative == 1
MaxOrgValue == 1

\* A missing 'values' cell, below every number of the model; a missing
\* 'labels' cell is the text "NaN".
ValueNaN == 0 - MaxNegative - 1

CleanLabels == {"NaN", "A", " A", "B"}
CleanParents == {"", "A", " A"}
CleanValues == {ValueNaN} \cup ((0 - MaxNegative)..MaxOrgValue)

CleanRows == [labels : CleanLabels, parents : CleanParents,
              values : CleanValues]

CleanTables == UNION {[1..n -> CleanRows] : n \in 0..MaxCleanRows}

\* DataFrame.dropna(subset=['labels', 'values']): the rows with both cells
\* present, in their order.
RECURSIVE dropna(_)
dropna(T) ==
    IF T = <<>> THEN <<>>
    ELSE IF Head(T).labels # "NaN" /\ Head(T).values # ValueNaN
    THEN <<Head(T)>> \o dropna(Tail(T))
    ELSE dropna(Tail(T))

\* Series.str.strip() on one cell
strip(s) == IF s = " A" THEN "A" ELSE s

\* Series.clip(lower=0) on one cell
clip(v) == IF v # ValueNaN /\ v < 0 THEN 0 ELSE v

CleanInit ==
    /\ raw_org_data \in CleanTables
    /\ cleaned_org_data = <<>>
    /\ negative_values = 0
    /\ clean_warnings = <<>>
    /\ clean_pc = "start"
    /\ TcfIdle
    /\ ClusteringIdle
    /\ CacheIdle
    /\ FetchIdle
    /\ LoadIdle
    /\ OrgIdle
    /\ PipeIdle
    /\ GenIdle
    /\ BudgetIdle
    /\ NetIdle
    /\ LaunchIdle

\* cleaned_org_data = org_data.copy(), then dropna on labels and values.
DropMissing ==
    /\ clean_pc = "start"
    /\ cleaned_org_data' = dropna(raw_org_data)
    /\ clean_pc' = "dropped"
    /\ UNCHANGED <<raw_org_data, negative_values, clean_warnings>>
    /\ UNCHANGED notClean

\* labels and parents stripped of surrounding blanks.
StripText ==
    /\ clean_pc = "dropped"
    /\ cleaned_org_data' = [i \in DOMAIN cleaned_org_data |->
            [cleaned_org_data[i] EXCEPT !.labels = strip(@),
                                        !.parents = strip(@)]]
    /\ clean_pc' = "stripped"
    /\ UNCHANGED <<raw_org_data, negative_values, clean_warnings>>
    /\ UNCHANGED notClean

\* "Ensure values are positive": count the negative values and, when there
\* are any, clip the column at 0.
ClipNegative ==
    /\ clean_pc = "stripped"
    /\ negative_values' = Cardinality({i \in DOMAIN cleaned_org_data :
                                        cleaned_org_data[i].values < 0})
    /\ cleaned_org_data' =
        IF negative_values' > 0
        THEN [i \in DOMAIN cleaned_org_data |->
                [cleaned_org_data[i] EXCEPT !.values = clip(@)]]
        ELSE cleaned_org_data
    /\ clean_pc' = "clipped"
    /\ UNCHANGED <<raw_org_data, clean_warnings>>
    /\ UNCHANGED notClean

\* self._validate_hierarchy(), then `return True`.
ValidateCleaned ==
    /\ clean_pc = "clipped"
    /\ clean_warnings' = validate_hierarchy(cleaned_org_data)
    /\ clean_pc' = "done"
    /\ UNCHANGED <<raw_org_data, cleaned_org_data, negative_values>>
    /\ UNCHANGED notClean

CleanNext == DropMissing \/ StripText \/ ClipNegative \/ ValidateCleaned

SpecClean == CleanInit /\ [][CleanNext]_allVars

\* ------------------------------------------------- dashboard launchers
\* The checks of each main(), in order.
Checks(l) ==
    IF l = "run_dashboard_clean"
    THEN <<"check_python_version", "check_required_files",
           "install_dependencies">>
    ELSE <<"check_requirements", "install_requirements">>

\* required_files of each launcher.
RequiredFiles(l) ==
    IF l = "run_dashboard_clean"
    THEN {"../src/tcf_strategic_dashboard.py",
          "../data/country_gdp_population.csv", "../data/org_structure.csv"}
    ELSE {"tcf_strategic_dashboard_english.py", "country_gdp_population.csv",
          "org_structure.csv"}

\* What pip can do: succeed, exit non-zero (CalledProcessError, caught by
\* the check), or fail to start (an OSError nothing catches).
PipResults == {"ok", "CalledProcessError", "OSError"}

\* The result of one check in the launcher's environment.
check_result(l, c, py, files, pip) ==
    IF c = "check_python_version" THEN (IF py THEN "True" ELSE "False")
    ELSE IF c \in {"check_required_files", "check_requirements"}
    THEN (IF RequiredFiles(l) \subseteq files THEN "True" ELSE "False")
    ELSE IF pip = "ok" THEN "True"
    ELSE IF pip = "CalledProcessError" THEN "False"
    ELSE "raised"

launcher_continues_always(result) == result # "raised"

\* `if not check(): sys.exit(1)` / `if not check(): ... return`
launcher_continues(result) == result = "True"

LaunchInit ==
    /\ launcher \in {"run_dashboard_clean", "run_dashboard"}
    /\ python_ok \in BOOLEAN
    /\ present_files \in SUBSET RequiredFiles(launcher)
    /\ pip_result \in PipResults
    /\ checks_log = <<>>
    /\ launcher_exit = ""
    /\ streamlit_started = FALSE
    /\ TcfIdle
    /\ ClusteringIdle
    /\ CacheIdle
    /\ FetchIdle
    /\ LoadIdle
    /\ OrgIdle
    /\ PipeIdle
    /\ GenIdle
    /\ BudgetIdle
    /\ NetIdle
    /\ CleanIdle

\* One `if not <check>():` of main(): sys.exit(1) in run_dashboard_clean,
\* a message and `return` in run_dashboard.
RunCheck ==
    /\ launcher_exit = ""
    /\ Len(checks_log) < Len(Checks(launcher))
    /\ LET c == Checks(launcher)[Len(checks_log) + 1]
           r == check_result(launcher, c, python_ok, present_files,
                             pip_result)
       IN /\ checks_log' = Append(checks_log, [check |-> c, result |-> r])
          /\ launcher_exit' =
                IF launcher_continues(r) THEN ""
                ELSE IF r = "raised" THEN "raised"
                ELSE IF launcher = "run_dashboard_clean" THEN "exit 1"
                ELSE "return"
    /\ UNCHANGED <<launcher, python_ok, present_files, pip_result,
                   streamlit_started>>
    /\ UNCHANGED notLaunch

\* run_dashboard(): subprocess.run of streamlit, which main() reaches after
\* its last check.
RunDashboard ==
    /\ launcher_exit = ""
    /\ Len(checks_log) = Len(Checks(launcher))
    /\ streamlit_started' = TRUE
    /\ launcher_exit' = "finished"
    /\ UNCHANGED <<launcher, python_ok, present_files, pip_result,
                   checks_log>>
    /\ UNCHANGED notLaunch

LaunchNext == RunCheck \/ RunDashboard

SpecLaunch == LaunchInit /\ [][LaunchNext]_allVars

\* ------------------------------------------------------------- claims

\* C1: for every input of N >= 2 entities linkage succeeds and the merge
\* tree has exactly N-1 merges; the last merge counts N members and
\* subsumes all N entities.
C1_MergeCount ==
    /\ (N >= 2 => pc # "error")
    /\ Linked => /\ Len(linkage_matrix) = N - 1
                 /\ linkage_matrix[N - 1].count = N
                 /\ LeavesUnder(linkage_matrix, N, 2 * N - 2) = Entities
C1_Witness ==
    /\ pc = "linked"
    /\ N = 4
    /\ Len(linkage_matrix) = 3
    /\ linkage_matrix[3].count = 4
    /\ linkage_matrix[2].count = 2

\* C2: whatever the threshold, the picture gives every input entity exactly
\* one leaf and that leaf exactly one colour, so every entity is in exactly
\* one flat cluster: none is missing, none is in two.
C2_PartitionComplete ==
    Rendered =>
        /\ Len(dendro.leaves) = N
        /\ \A e \in Entities :
             /\ Cardinality({pos \in DOMAIN dendro.leaves :
                                dendro.leaves[pos] = e}) = 1
             /\ Cardinality(LeafColors(dendro, e)) = 1
        /\ \A e \in Entities :
             Cardinality({c \in FlatClusters(dendro, N) : e \in c}) = 1
C2_Witness ==
    /\ Rendered
    /\ N = 4
    /\ NumClusters(dendro, N) = 3
    /\ \E e \in Entities : LeafColor(dendro, e) = 1

\* C3 as amended: the picture applies exactly the merges whose distance is
\* strictly below T: two entities are in the same flat cluster iff a merge
\* of distance < T joins them, and an entity no such merge touches is alone.
C3_AppliedBelowThreshold ==
    Rendered =>
        \A e1, e2 \in Entities :
            SameCluster(dendro, e1, e2)
                <=> ConnectedLess(linkage_matrix, N, color_threshold, e1, e2)
\* C3 as claimed: the merges of distance <= T are the applied ones.
C3_AppliedAtOrBelowThreshold ==
    Rendered =>
        \A e1, e2 \in Entities :
            SameCluster(dendro, e1, e2)
                <=> ConnectedLeq(linkage_matrix, N, color_threshold, e1, e2)
C3_Witness ==
    /\ Rendered
    /\ color_threshold = Fin(ColorThreshold)
    /\ linkage_matrix[N - 1].dist = Sq(color_threshold)
    /\ \E e1, e2 \in Entities :
         /\ ~SameCluster(dendro, e1, e2)
         /\ ConnectedLeq(linkage_matrix, N, color_threshold, e1, e2)

\* C4: the merge distances are non-decreasing in merge order.
C4_MonotoneDistances ==
    Linked =>
        \A i, j \in DOMAIN linkage_matrix :
            i < j => FLeq(linkage_matrix[i].dist, linkage_matrix[j].dist)
C4_Witness ==
    /\ pc = "linked"
    /\ \E i, j \in 1..(N - 1) :
         /\ i < j
         /\ FLess(nn_chain(distances, N)[j].dist, nn_chain(distances, N)[i].dist)
    /\ FLess(linkage_matrix[1].dist, linkage_matrix[2].dist)

\* C5: for thresholds T1 < T2 the picture of one merge tree has at least as
\* many flat clusters at T1 as at T2.
C5_CountMonotone ==
    Rendered =>
        \A t \in Thresholds :
            LET other == NumClusters(dendrogram(linkage_matrix, N, t), N)
            IN  /\ TLess(t, color_threshold) => other >= NumClusters(dendro, N)
                /\ TLess(color_threshold, t) => NumClusters(dendro, N) >= other
C5_Witness ==
    /\ Rendered
    /\ color_threshold = Fin(ColorThreshold)
    /\ NumClusters(dendro, N) = 2
    /\ NumClusters(dendrogram(linkage_matrix, N, Fin(1)), N) = 3
    /\ NumClusters(dendrogram(linkage_matrix, N, Fin(3)), N) = 1

\* The pairs of entities at the smallest pairwise distance.
MinPairs(y) == {pr \in DOMAIN y : \A other \in DOMAIN y : FLeq(y[pr], y[other])}
\* The pair of MinPairs with the lowest identifiers, in increasing order.
LowestPair(prs) ==
    CHOOSE pr \in prs :
        \A other \in prs :
            pr[1] < other[1] \/ (pr[1] = other[1] /\ pr[2] <= other[2])

C7_EdgeThresholds ==
    Rendered =>
        /\ error = ""
        /\ ThresholdLess(color_threshold, linkage_matrix[1].dist)
               => FlatClusters(dendro, N) = {{e} : e \in Entities}
        /\ DistLess(linkage_matrix[N - 1].dist, color_threshold)
               => FlatClusters(dendro, N) = {Entities}
\* C7 as claimed: a threshold at or above the root's merge distance gives
\* the one cluster of all N entities.
C7_AtOrAboveRoot ==
    Rendered =>
        /\ error = ""
        /\ ThresholdLess(color_threshold, linkage_matrix[1].dist)
               => FlatClusters(dendro, N) = {{e} : e \in Entities}
        /\ DistLeq(linkage_matrix[N - 1].dist, color_threshold)
               => FlatClusters(dendro, N) = {Entities}
C7_Witness ==
    /\ Rendered
    /\ N >= 3
    /\ ~color_threshold.inf
    /\ DistLess(linkage_matrix[N - 1].dist, color_threshold)
    /\ linkage_matrix[1].dist.p > 0
    /\ FlatClusters(dendro, N) = {Entities}

\* C8: with threshold 0 a merge tree with at least one strictly positive
\* merge distance is cut into N singleton clusters.
C8_ZeroThreshold ==
    (/\ Rendered
     /\ color_threshold = Fin(0)
     /\ \E k \in DOMAIN linkage_matrix : linkage_matrix[k].dist.p > 0)
        => FlatClusters(dendro, N) = {{e} : e \in Entities}
C8_Witness ==
    /\ Rendered
    /\ color_threshold = Fin(0)
    /\ N >= 3
    /\ linkage_matrix[1].dist.p = 0
    /\ linkage_matrix[N - 1].dist.p > 0
    /\ NumClusters(dendro, N) = N

\* C9: for A=[0,0], B=[0,1], C=[10,10], D=[10,11] the pairs {A,B} and {C,D}
\* are merged before the two pairs are merged with each other, and a
\* threshold between the within-pair and the between-pair merge distance
\* yields exactly the clusters {A,B} and {C,D}.
C9_Scenario1 ==
    features = Scenario1 =>
        /\ Linked =>
             /\ {{linkage_matrix[1].a, linkage_matrix[1].b},
                 {linkage_matrix[2].a, linkage_matrix[2].b}}
                    = {{0, 1}, {2, 3}}
             /\ {linkage_matrix[3].a, linkage_matrix[3].b} = {4, 5}
        /\ (/\ Rendered
            /\ DistLess(linkage_matrix[2].dist, color_threshold)
            /\ ThresholdLess(color_threshold, linkage_matrix[3].dist))
               => FlatClusters(dendro, N) = {{0, 1}, {2, 3}}
C9_Witness ==
    /\ features = Scenario1
    /\ Rendered
    /\ color_threshold = Fin(ColorThreshold)
    /\ FLess(linkage_matrix[2].dist, Sq(color_threshold))
    /\ FLess(Sq(color_threshold), linkage_matrix[3].dist)
    /\ FlatClusters(dendro, N) = {{0, 1}, {2, 3}}

C14_ConstantColumnZero ==
    pc \in {"scaled", "pdist", "linked", "done"} =>
        /\ Len(features_normalized.num) = Len(features)
        /\ \A i \in 1..N :
             DOMAIN features_normalized.num[i] = DOMAIN features[i]
        /\ \A d \in 1..NumFeatures :
             /\ features_normalized.den2[d] > 0
             /\ (\A i, j \in 1..N : features[i][d] = features[j][d])
                    => \A i \in 1..N : features_normalized.num[i][d] = 0
        /\ error = ""
C14_Witness ==
    /\ pc = "scaled"
    /\ N = 3
    /\ \A i \in 1..N : features[i][1] = 1
    /\ \A i \in 1..N : features_normalized.num[i][1] = 0
    /\ \E i \in 1..N : features_normalized.num[i][2] # 0

\* The leaves of cluster c of merge tree Z, left subtree first.
RECURSIVE InOrder(_, _, _)
InOrder(Z, n, c) ==
    IF c < n THEN <<c>>
    ELSE InOrder(Z, n, Z[c - n + 1].a) \o InOrder(Z, n, Z[c - n + 1].b)
\* The position of entity e among the leaves of picture R, from 1.
LeafIndex(R, e) == CHOOSE pos \in DOMAIN R.leaves : R.leaves[pos] = e
\* The link of picture R drawn for cluster c >= n.
LinkOf(R, c) == R.links[CHOOSE k \in DOMAIN R.links : R.links[k].node = c]
\* x lies halfway between a and b.
IsMidpoint(x, a, b) == 2 * x.p * a.q * b.q = x.q * (a.p * b.q + b.p * a.q)
\* Where the picture must draw child c of a link: a leaf at 5, 15, 25, ...
\* in leaf order, a merge halfway between its own two children.
DrawnAt(R, n, c, x) ==
    IF c < n
    THEN x = [p |-> 10 * (LeafIndex(R, c) - 1) + 5, q |-> 1]
    ELSE IsMidpoint(x, LinkOf(R, c).xa, LinkOf(R, c).xb)

\* C15: the leaves of the picture are the in-order traversal of the merge
\* tree, drawn at distinct positions 10 apart; every merge is drawn halfway
\* between its two children; and the leaves of the left child of a merge
\* all lie left of the leaves of its right child, each child's leaves
\* filling a gap-free range.
C15_Layout ==
    Rendered =>
        /\ dendro.leaves = InOrder(linkage_matrix, N, 2 * N - 2)
        /\ \A k \in DOMAIN dendro.links :
             LET l == dendro.links[k]
                 la == {LeafIndex(dendro, e) :
                           e \in LeavesUnder(linkage_matrix, N, l.a)}
                 lb == {LeafIndex(dendro, e) :
                           e \in LeavesUnder(linkage_matrix, N, l.b)}
             IN  /\ DrawnAt(dendro, N, l.a, l.xa)
                 /\ DrawnAt(dendro, N, l.b, l.xb)
                 /\ FLess(l.xa, l.xb)
                 /\ \A i \in la : \A j \in lb : i < j
                 /\ \E lo \in 1..N : la \cup lb
                        = lo..(lo + Cardinality(la) + Cardinality(lb) - 1)
C15_Witness ==
    /\ Rendered
    /\ N = 4
    /\ dendro.leaves # <<0, 1, 2, 3>>
    /\ \E k \in DOMAIN dendro.links :
         /\ dendro.links[k].a >= N
         /\ dendro.links[k].b >= N
         /\ dendro.links[k].xa = [p |-> 10, q |-> 1]
         /\ dendro.links[k].xb = [p |-> 30, q |-> 1]

\* C13 as claimed: a table with a missing feature value never gets past the
\* first step of create_dendrogram: the call ends in a typed error, nothing
\* is imputed and no dendrogram is returned.
C13_FailsFastOnMissing ==
    (HasMissing(data) /\ tcf_pc # "start")
        => /\ tcf_pc = "error"
           /\ tcf_error \notin {"", "ValueError"}
           /\ numeric_data = << >>
           /\ fig = << >>
\* The run the claim excludes: a missing cell was filled with the column
\* mean and the dendrogram of the filled table was returned.
C13_ImputedAndDrawn ==
    /\ tcf_pc = "done"
    /\ tcf_error = ""
    /\ \E i \in DOMAIN data : \E d \in 1..NumFeatures :
         /\ data[i][d] = NaN
         /\ numeric_data.den[d] < Len(data)
         /\ numeric_data.num[i][d] = ColSumPresent(data, d, Len(data))
         /\ numeric_data.num[i][d] > 0
    /\ Len(fig.leaves) = Len(data)

\* C16 as amended: a run reads a CSV file only when the server process
\* has not loaded that path before; from then on every run of the process
\* is served the value cached by that first load (None for a file that was
\* missing then), whatever the file holds now, until the process restarts.
C16_ServedFromCache ==
    /\ [](last_event = "run" => frames = cache_data)
    /\ [][last_event' # "restart" =>
            \A p \in Paths :
                cache_data[p] # NotCached =>
                    /\ cache_data'[p] = cache_data[p]
                    /\ last_event' = "run" => frames'[p] = cache_data[p]
         ]_allVars
\* C16 as claimed: every run uses the current contents of its CSV files.
C16_LoadedFresh ==
    last_event = "run" =>
        \A p \in Paths : frames[p] = load_csv(csv_files[p])
C16_Witness ==
    /\ last_event = "run"
    /\ \E p \in Paths :
         /\ csv_files[p] = 2
         /\ frames[p] = 1
         /\ cache_data[p] = 1
    /\ \E p \in Paths :
         /\ csv_files[p] = 1
         /\ frames[p] = None

\* C17 as claimed: for every country the result is the first year of the
\* years list for which the fetched rows have a number, with that number;
\* the value is None only when no listed year has a number for the country,
\* whatever the order of the rows.
C17_FirstAvailableYear ==
    fetch_pc = "returned" =>
        \A c \in Countries :
            IF YearsWithValue(c) # {}
            THEN LET first == CHOOSE k \in YearsWithValue(c) :
                                  \A j \in YearsWithValue(c) : k <= j
                 IN  /\ c \in DOMAIN results
                     /\ results[c].year = years[first]
                     /\ results[c].value # Null
                     /\ \E row \in AllRows :
                          /\ row.country = c
                          /\ row.date = results[c].year
                          /\ row.value = results[c].value
            ELSE c \in DOMAIN results => results[c].value = Null
\* The run the claim excludes, for preferred_years newest first and rows
\* newest first: the newest year is null, an older year has a number, and
\* the result keeps the null.
C17_NullKeptOverOlderValue ==
    /\ fetch_pc = "returned"
    /\ years = <<2, 1>>
    /\ api_pages = << << [country |-> "ARG", date |-> 2, value |-> Null],
                         [country |-> "ARG", date |-> 1, value |-> 5] >> >>
    /\ results["ARG"] = [year |-> 2, value |-> Null]

C19_EveryCycleReported ==
    org_pc = "validated" =>
        \A i \in DOMAIN org_data : OnCycle(org_data, i) => i \in warnings.circular
\* The run the claim excludes: two units that are each other's parent, and
\* no warning for either.
C19_CycleNotReported ==
    /\ org_pc = "validated"
    /\ org_data = << [labels |-> "A", parents |-> "B"],
                     [labels |-> "B", parents |-> "A"] >>
    /\ warnings.circular = {}

\* C20 as claimed: on every table the level computations come to an end:
\* calculate_level returns for every label (it is never cut off by the
\* recursion limit) and _count_hierarchy_levels leaves its loop, which it
\* can only do within as many counted levels as the table has rows.
C20_Terminates ==
    /\ org_pc # "RecursionError"
    /\ org_pc = "count_levels" => levels <= Len(org_data)
\* The runs the claim excludes: calculate_level on a two-unit cycle, and
\* _count_hierarchy_levels on a table that lists unit A twice.
C20_RecursionError ==
    /\ org_pc = "RecursionError"
    /\ org_data = << [labels |-> "A", parents |-> "B"],
                     [labels |-> "B", parents |-> "A"] >>
C20_CountLoops ==
    /\ org_pc = "count_levels"
    /\ org_data = << [labels |-> "A", parents |-> ""],
                     [labels |-> "B", parents |-> "A"],
                     [labels |-> "A", parents |-> "B"] >>
    /\ levels > Len(org_data)

\* ---------------------------------------------------------------- C21
\* C21: the steps a pipeline has run are the first steps of its list, in the
\* list's order; a step that returned False is the last step run and makes
\* the pipeline return False; the save step has run only after every step
\* before it returned True.
C21_FixedOrderFailFast ==
    /\ Len(step_log) <= Len(Steps(pipeline))
    /\ \A i \in 1..Len(step_log) :
        /\ step_log[i].step = Steps(pipeline)[i]
        /\ step_log[i].outcome = "False"
            => i = Len(step_log) /\ pipeline_return = "False"
        /\ i = Len(Steps(pipeline))
            => \A j \in 1..(i - 1) : step_log[j].outcome = "True"
    /\ pipeline_return = "False"
        => step_log # <<>> /\ step_log[Len(step_log)].outcome = "False"

\* A validation step returned False after the load step returned True, and
\* the pipeline returned False with the later steps not run.
C21_Witness ==
    /\ pipeline = "cleaning"
    /\ pipeline_return = "False"
    /\ Len(step_log) = 3
    /\ step_log[3].outcome = "False"

\* ---------------------------------------------------------------- C22
\* The generators of the run's list that returned True.
ReturnedTrue == {i \in 1..Len(gen_log) : gen_log[i].outcome = "True"}

\* C22: in a run of generate_all_visualizations (or of
\* generate_all_advanced_visualizations) the generators attempted are the
\* first ones of the list, in list order; once loading succeeded and the run
\* is over, every generator of the list was attempted, the index file is
\* written, and the run returned True iff every generator returned True;
\* when loading failed no generator ran and no index was written.
C22_AllAttemptedThenIndex ==
    gen_run \in {"hierarchical", "advanced"} =>
        /\ \A i \in 1..Len(gen_log) : gen_log[i].gen = Generators(gen_run)[i]
        /\ index_written => Len(gen_log) = Len(Generators(gen_run))
        /\ (gen_pc = "done" /\ gen_log # <<>>) =>
            /\ Len(gen_log) = Len(Generators(gen_run))
            /\ index_written
            /\ (gen_return = "True")
                = (Cardinality(ReturnedTrue) = Len(Generators(gen_run)))
        /\ (gen_pc = "done" /\ gen_log = <<>>) =>
            /\ gen_return = "False"
            /\ ~index_written
            /\ written = {}

\* A run of the nine generators in which an early generator raised and the
\* later ones were still attempted, with the index written at the end.
C22_Witness ==
    /\ gen_run = "hierarchical"
    /\ gen_pc = "done"
    /\ index_written
    /\ Len(gen_log) = 9
    /\ gen_log[2].outcome = "raised"
    /\ gen_log[9].outcome = "True"
    /\ gen_return = "False"

\* ---------------------------------------------------------------- C23
\* C23: every file listed in the index that a run wrote was written by that
\* run.
C23_IndexListsWrittenFiles ==
    index_written => index_listed \subseteq written

\* generate_all_visualizations returned True and its index.html links to
\* insights_dashboard.png, which the run never wrote.
C23_ListedButNotWritten ==
    /\ gen_run = "hierarchical"
    /\ gen_return = "True"
    /\ index_written
    /\ "insights_dashboard.png" \in index_listed \ written

\* ---------------------------------------------------------------- C24
\* The budgets a row may have by the claim: values x 100000, alone or scaled
\* by the multiplier of one department.
SingleMultiplierBudgets(row) ==
    {row.values * base_budget_per_employee}
        \cup {(row.values * base_budget_per_employee * budget_multipliers[d])
                \div 10 : d \in DOMAIN budget_multipliers}

\* The departments whose mask selects the row.
MatchedDepartments(row) ==
    {d \in DOMAIN budget_multipliers : mask(row, d)}

\* C24: when budget preparation is over, every row's budget is values x
\* 100000 scaled by the multiplier of at most one department, and a row that
\* matches no department keeps values x 100000.
C24_AtMostOneMultiplier ==
    dept_index = Len(Departments) =>
        \A i \in 1..Len(budget_data) :
            /\ budget_data[i].budget
                \in SingleMultiplierBudgets(budget_data[i])
            /\ MatchedDepartments(budget_data[i]) = {}
                => budget_data[i].budget
                    = budget_data[i].values * base_budget_per_employee

\* A unit named "Sales Engineering" ends with both the Engineering and the
\* Sales multiplier on its budget: 156000 per employee.
C24_Compounded ==
    /\ dept_index = Len(Departments)
    /\ \E i \in 1..Len(budget_data) :
        /\ budget_data[i].labels = <<"Sales", "Engineering">>
        /\ budget_data[i].budget = budget_data[i].values * 156000

\* ---------------------------------------------------------------- C25
\* C25: in a generated hierarchy table every community of the clean table
\* stands in exactly one size group, and the group is the one its label
\* describes: Big iff size_cleaned >= 15, Medium iff 8..14, Small iff 3..7.
C25_GroupMatchesLabel ==
    hier_source = "generated" =>
        \A i \in 1..len(clean_df) :
            LET size == clean_df.rows[i]
                groups == {r.size_group : r \in {h \in hier_df :
                                                    h.community_id = i}}
            IN /\ Cardinality(groups) = 1
               /\ ("Big (>=15 people)" \in groups) = (size >= 15)
               /\ ("Medium (8-14 people)" \in groups)
                    = (size >= 8 /\ size <= 14)
               /\ ("Small (3-7 people)" \in groups)
                    = (size >= 3 /\ size <= 7)

\* A community of two people stands in the group "Small (3-7 people)".
C25_TwoPeopleSmall ==
    /\ hier_source = "generated"
    /\ \E h \in hier_df :
        /\ h.size_group = "Small (3-7 people)"
        /\ clean_df.rows[h.community_id] = 2

\* ---------------------------------------------------------------- C26
\* C26: the density the advanced overview shows is a value from 0 to 1, and
\* it is 0 when there are fewer than two nodes or a table failed to load.
C26_DensityInUnitInterval ==
    (net_pc = "shown" /\ ~simple_mode) =>
        /\ FLeq(FZero, density)
        /\ FLeq(density, [p |-> 1, q |-> 1])
        /\ (~edges_df.loaded \/ ~nodes_df.loaded \/ len(nodes_df) < 2)
            => density = FZero

\* Two nodes and an edge list of two rows: the overview shows density 2.
C26_DensityAboveOne ==
    /\ net_pc = "shown"
    /\ ~simple_mode
    /\ len(nodes_df) = 2
    /\ len(edges_df) = 2
    /\ density = [p |-> 2, q |-> 1]

\* ---------------------------------------------------------------- C27
\* C27: after clean_org_data every row of the cleaned organizational data has
\* a positive 'values' entry, and neither its 'labels' nor its 'values' is
\* missing.
C27_PositiveNonMissing ==
    clean_pc = "done" =>
        \A i \in DOMAIN cleaned_org_data :
            /\ cleaned_org_data[i].labels # "NaN"
            /\ cleaned_org_data[i].values # ValueNaN
            /\ cleaned_org_data[i].values > 0

\* A unit that came in with a negative value leaves the cleaning with 0.
C27_ZeroAfterClipping ==
    /\ clean_pc = "done"
    /\ negative_values > 0
    /\ \E i \in DOMAIN cleaned_org_data : cleaned_org_data[i].values = 0

\* ---------------------------------------------------------------- C28
\* C28: a launcher runs its checks in the order of its main(); Streamlit is
\* started only after every check of the launcher returned True; a check
\* that did not return True is the last step the launcher ran.
C28_ChecksBeforeStreamlit ==
    /\ Len(checks_log) <= Len(Checks(launcher))
    /\ \A i \in 1..Len(checks_log) :
        /\ checks_log[i].check = Checks(launcher)[i]
        /\ checks_log[i].result # "True"
            => /\ i = Len(checks_log)
               /\ launcher_exit \in {"exit 1", "return", "raised"}
               /\ ~streamlit_started
    /\ streamlit_started =>
        /\ Len(checks_log) = Len(Checks(launcher))
        /\ \A i \in 1..Len(checks_log) : checks_log[i].result = "True"

\* run_dashboard_clean passed the version check, found a required file
\* missing and exited without installing anything or starting Streamlit.
C28_Witness ==
    /\ launcher = "run_dashboard_clean"
    /\ Len(checks_log) = 2
    /\ checks_log[1].result = "True"
    /\ checks_log[2].result = "False"
    /\ launcher_exit = "exit 1"
    /\ ~streamlit_started

====
